---------------------------- MODULE Spec2Model ----------------------------
(***************************************************************************)
(* A model of the .osu document parser and serializer (OsuFile::from_str,  *)
(* Display for OsuFile) and of the section parsers it dispatches to.       *)
(* A text is a sequence of one-character strings; the parsers work on      *)
(* positions in a text, as the nom combinators of the source do.           *)
(***************************************************************************)
EXTENDS Integers, Sequences, FiniteSets, TLC

VARIABLES
    input,      \* the text handed to OsuFile::from_str, as written so far
    style,      \* how the text is written: line ending, blank lines, body lines
    written,    \* what was written: the first line, then the section headers
    pc,         \* "write", "parsed" (an OsuFile or an error exists), "printed"
    origin,     \* where file comes from: "none", "new", "default", "from_str"
    file,       \* the OsuFile
    result,     \* the result of OsuFile::from_str
    output      \* the result of to_string

vars == <<input, style, written, pc, origin, file, result, output>>

-----------------------------------------------------------------------------
(* Bounds of the model.                                                    *)

\* sections a written document holds at most
MaxSections == 2
\* blank lines written before a section header at most
MaxBlank == 2
\* body lines written in a section at most
MaxBodyLines == 1
\* leading blank lines written before the first line at most
MaxLead == 2
\* version numbers 0..MaxVersionNumber are written in a first line
MaxVersionNumber == 257
\* blank lines between a section header and its first body line
MaxGap == 2
\* lines of a Colours text
MaxColourLines == 2
\* lines of an Events text
MaxEventLines == 4
\* deepest indentation of a command line
MaxDepth == 3
\* lines of a text of `name : value` lines
MaxFieldLines == 2

-----------------------------------------------------------------------------
(* Characters and character classes.                                       *)

LF == "\n"
CR == "\r"
CRLF == <<CR, LF>>

Digits == <<"0", "1", "2", "3", "4", "5", "6", "7", "8", "9">>

is_digit(c) == \E d \in 1..10 : Digits[d] = c

digit_value(c) == (CHOOSE d \in 1..10 : Digits[d] = c) - 1

\* nom multispace0: space, tab, carriage return, line feed
Multispace == {" ", "\t", CR, LF}

\* nom space0: space, tab
Space == {" ", "\t"}

MIN_VERSION == 3
LATEST_VERSION == 14

-----------------------------------------------------------------------------
(* Text primitives.                                                        *)

\* take_till: the first position at or after i whose character is in stop
RECURSIVE take_till(_, _, _)
take_till(s, i, stop) ==
    IF i > Len(s) \/ s[i] \in stop THEN i ELSE take_till(s, i + 1, stop)

\* take_while (multispace0, space0, digit0): the first position at or after i
\* whose character is not in cls
RECURSIVE take_while(_, _, _)
take_while(s, i, cls) ==
    IF i > Len(s) \/ s[i] \notin cls THEN i ELSE take_while(s, i + 1, cls)

\* tag / starts_with: text t stands in s at position i
starts_with(s, i, t) ==
    /\ i + Len(t) - 1 <= Len(s)
    /\ \A k \in 1..Len(t) : s[i + k - 1] = t[k]

\* str::lines: split at LF, a CR before the LF belongs to the line ending,
\* no line after a final LF
RECURSIVE lines_from(_, _)
lines_from(s, i) ==
    IF i > Len(s) THEN <<>>
    ELSE LET j == take_till(s, i, {LF})
             e == IF j <= Len(s) /\ j > i /\ s[j - 1] = CR THEN j - 2 ELSE j - 1
         IN  <<SubSeq(s, i, e)>> \o lines_from(s, j + 1)

lines(s) == lines_from(s, 1)

\* s.lines().count()
lines_count(s) == Len(lines(s))

\* [T]::join
RECURSIVE join(_, _)
join(parts, sep) ==
    IF Len(parts) = 0 THEN <<>>
    ELSE IF Len(parts) = 1 THEN parts[1]
    ELSE parts[1] \o sep \o join(Tail(parts), sep)

\* Display of an unsigned integer: its decimal digits
RECURSIVE fmt_int(_)
fmt_int(n) ==
    IF n < 10 THEN <<Digits[n + 1]>> ELSE fmt_int(n \div 10) \o <<Digits[(n % 10) + 1]>>

\* the digits of s from position i on, as a number; -1 when a character is
\* no digit or the number passes max
RECURSIVE parse_digits(_, _, _, _)
parse_digits(s, i, acc, max) ==
    IF i > Len(s) THEN acc
    ELSE IF ~is_digit(s[i]) THEN -1
    ELSE LET n == acc * 10 + digit_value(s[i])
         IN  IF n > max THEN -1 ELSE parse_digits(s, i + 1, n, max)

\* str::parse::<u8>: an optional + sign, then one or more digits, at most 255;
\* -1 stands for Err(ParseIntError)
parse_u8(s) ==
    LET from == IF Len(s) > 0 /\ s[1] = "+" THEN 2 ELSE 1
    IN  IF from > Len(s) THEN -1 ELSE parse_digits(s, from, 0, 255)

-----------------------------------------------------------------------------
(* Texts of the format.                                                    *)

VersionTag == <<"o", "s", "u", " ", "f", "i", "l", "e", " ",
                "f", "o", "r", "m", "a", "t", " ", "v">>

GeneralName == <<"G", "e", "n", "e", "r", "a", "l">>
EditorName == <<"E", "d", "i", "t", "o", "r">>
MetadataName == <<"M", "e", "t", "a", "d", "a", "t", "a">>
DifficultyName == <<"D", "i", "f", "f", "i", "c", "u", "l", "t", "y">>
EventsName == <<"E", "v", "e", "n", "t", "s">>
TimingPointsName == <<"T", "i", "m", "i", "n", "g", "P", "o", "i", "n", "t", "s">>
ColoursName == <<"C", "o", "l", "o", "u", "r", "s">>
HitObjectsName == <<"H", "i", "t", "O", "b", "j", "e", "c", "t", "s">>

\* the sections in the order Display writes them, with the field each fills
Sections == <<
    [name |-> GeneralName, field |-> "general"],
    [name |-> EditorName, field |-> "editor"],
    [name |-> MetadataName, field |-> "metadata"],
    [name |-> DifficultyName, field |-> "difficulty"],
    [name |-> EventsName, field |-> "events"],
    [name |-> TimingPointsName, field |-> "timing_points"],
    [name |-> ColoursName, field |-> "colours"],
    [name |-> HitObjectsName, field |-> "hitobjects"] >>

Fields == {Sections[k].field : k \in 1..Len(Sections)}

SectionNames == {Sections[k].name : k \in 1..Len(Sections)}

field_of(name) == Sections[CHOOSE k \in 1..Len(Sections) : Sections[k].name = name].field

\* Option<T>
None == [some |-> FALSE, val |-> <<>>]
Some(v) == [some |-> TRUE, val |-> v]

-----------------------------------------------------------------------------
(* Rgb and Colour (colours/types.rs, colours/mod.rs).                      *)

RgbErr(e) == [ok |-> FALSE, err |-> e, val |-> <<>>]

\* byte(): map_res(digit1, parse::<u8>) at position i; pos = 0 on failure
byte(s, i) ==
    LET j == take_while(s, i, {Digits[d] : d \in 1..10})
        v == IF j = i THEN -1 ELSE parse_digits(SubSeq(s, i, j - 1), 1, 0, 255)
    IN  [ok |-> v # -1, val |-> v, pos |-> j]

\* tuple((space0, comma(), space0)) at position i; pos = 0 when no comma
comma_sep(s, i) ==
    LET j == take_while(s, i, Space)
    IN  IF j <= Len(s) /\ s[j] = ","
        THEN [ok |-> TRUE, pos |-> take_while(s, j + 1, Space)]
        ELSE [ok |-> FALSE, pos |-> 0]

\* consume_rest_type(): the rest of the text parsed as one u8
consume_rest_type(s, i) ==
    LET v == parse_u8(SubSeq(s, i, Len(s)))
    IN  [ok |-> v # -1, val |-> v]

\* opt(preceded((space0, comma, space0), consume_rest_type)): None when the
\* separator or the value does not parse
alpha_of(s, i) ==
    LET c == comma_sep(s, i)
    IN  IF ~c.ok THEN None
        ELSE LET a == consume_rest_type(s, c.pos)
             IN  IF a.ok THEN Some(a.val) ELSE None

\* Rgb::from_str: what follows the parsed components is not looked at
Rgb_from_str(s) ==
    LET r == byte(s, take_while(s, 1, Space))
    IN  IF ~r.ok THEN RgbErr("InvalidRed")
        ELSE LET c1 == comma_sep(s, r.pos)
        IN  IF ~c1.ok THEN RgbErr("MissingGreen")
        ELSE LET g == byte(s, c1.pos)
        IN  IF ~g.ok THEN RgbErr("InvalidGreen")
        ELSE LET c2 == comma_sep(s, g.pos)
        IN  IF ~c2.ok THEN RgbErr("MissingBlue")
        ELSE LET b == byte(s, c2.pos)
        IN  IF ~b.ok THEN RgbErr("InvalidBlue")
        ELSE [ok |-> TRUE, err |-> "",
              val |-> [red |-> r.val, green |-> g.val, blue |-> b.val,
                       alpha |-> alpha_of(s, b.pos)]]

\* Rgb::to_string
Rgb_to_string_mutant(rgb) ==
    fmt_int(rgb.red) \o <<",">> \o fmt_int(rgb.blue) \o <<",">> \o fmt_int(rgb.green)

Rgb_to_string(rgb) ==
    fmt_int(rgb.red) \o <<",">> \o fmt_int(rgb.green) \o <<",">> \o fmt_int(rgb.blue)

ComboTag == <<"C", "o", "m", "b", "o">>
SliderTrackOverrideTag == <<"S", "l", "i", "d", "e", "r", "T", "r", "a", "c", "k",
                            "O", "v", "e", "r", "r", "i", "d", "e">>
SliderBorderTag == <<"S", "l", "i", "d", "e", "r", "B", "o", "r", "d", "e", "r">>

ColourErr(e) == [ok |-> FALSE, err |-> e, val |-> <<>>]

\* separator(): tuple((space0, tag(":"), space0)); pos = 0 when no colon
separator(s, i) ==
    LET j == take_while(s, i, Space)
    IN  IF j <= Len(s) /\ s[j] = ":"
        THEN [ok |-> TRUE, pos |-> take_while(s, j + 1, Space)]
        ELSE [ok |-> FALSE, pos |-> 0]

\* Colour::from_str. The rgb part is the rest of the line; when it does not
\* parse, the error is taken from a second Colour::from_str on that rest,
\* and unwrap_err panics when that second parse succeeds.
RECURSIVE Colour_from_str(_)
rgb_part(s, i, kind, num) ==
    LET rest == SubSeq(s, i, Len(s))
        rgb == Rgb_from_str(rest)
    IN  IF rgb.ok
        THEN [ok |-> TRUE, err |-> "",
              val |-> [kind |-> kind, num |-> num, rgb |-> rgb.val]]
        ELSE LET again == Colour_from_str(rest)
             IN  IF again.ok THEN ColourErr("panic") ELSE again

Colour_from_str(s) ==
    IF starts_with(s, 1, ComboTag)
    THEN LET i == Len(ComboTag) + 1
             j == take_while(s, i, {Digits[d] : d \in 1..10})
             n == IF j = i THEN -1
                  ELSE parse_digits(SubSeq(s, i, j - 1), 1, 0, 2147483647)
         IN  IF n = -1 THEN ColourErr("InvalidComboCount")
             ELSE LET sep == separator(s, j)
                  IN  IF ~sep.ok THEN ColourErr("InvalidColonSeparator")
                      ELSE rgb_part(s, sep.pos, "Combo", n)
    ELSE IF starts_with(s, 1, SliderTrackOverrideTag)
    THEN LET sep == separator(s, Len(SliderTrackOverrideTag) + 1)
         IN  IF ~sep.ok THEN ColourErr("InvalidColonSeparator")
             ELSE rgb_part(s, sep.pos, "SliderTrackOverride", 0)
    ELSE IF starts_with(s, 1, SliderBorderTag)
    THEN LET sep == separator(s, Len(SliderBorderTag) + 1)
         IN  IF ~sep.ok THEN ColourErr("InvalidColonSeparator")
             ELSE rgb_part(s, sep.pos, "SliderBorder", 0)
    ELSE ColourErr("UnknownColourType")

\* Colour::to_string
Colour_to_string(c) ==
    IF c.kind = "Combo"
    THEN ComboTag \o fmt_int(c.num) \o <<" ", ":", " ">> \o Rgb_to_string(c.rgb)
    ELSE IF c.kind = "SliderTrackOverride"
    THEN SliderTrackOverrideTag \o <<" ", ":", " ">> \o Rgb_to_string(c.rgb)
    ELSE SliderBorderTag \o <<" ", ":", " ">> \o Rgb_to_string(c.rgb)

-----------------------------------------------------------------------------
(* Section parsers and serializers.  A section result is                   *)
(* [ok, err, line, val]: val is the Option the parser returns, line the    *)
(* line index the error carries.                                           *)

SectionOk(v) == [ok |-> TRUE, err |-> "", line |-> 0, val |-> v]
SectionErr(e, l) == [ok |-> FALSE, err |-> e, line |-> l, val |-> None]

\* the loop of Colours::from_str over s.lines().enumerate()
RECURSIVE colours_loop_mutant(_, _, _)
colours_loop_mutant(ls, k, colours) ==
    IF k > Len(ls) THEN SectionOk(Some(colours))
    ELSE IF Len(ls[k]) = 0 THEN colours_loop_mutant(ls, k + 1, colours)
    ELSE LET colour == Colour_from_str(ls[k])
         IN  IF ~colour.ok THEN SectionErr(colour.err, Len(colours))
             ELSE colours_loop_mutant(ls, k + 1, Append(colours, colour.val))

RECURSIVE colours_loop(_, _, _)
colours_loop(ls, k, colours) ==
    IF k > Len(ls) THEN SectionOk(Some(colours))
    ELSE IF Len(ls[k]) = 0 THEN colours_loop(ls, k + 1, colours)
    ELSE LET colour == Colour_from_str(ls[k])
         IN  IF ~colour.ok THEN SectionErr(colour.err, k - 1)
             ELSE colours_loop(ls, k + 1, Append(colours, colour.val))

\* Colours::from_str
Colours_from_str(s, version) ==
    IF version \in MIN_VERSION..4 THEN SectionOk(None)
    ELSE colours_loop(lines(s), 1, <<>>)

\* Colours::to_string
Colours_to_string(colours, version) ==
    IF version \in MIN_VERSION..4 THEN None
    ELSE Some(join([k \in 1..Len(colours) |-> Colour_to_string(colours[k])], <<LF>>))

\* Colours::default
Colours_default_mutant(version) ==
    IF version \in MIN_VERSION..5 THEN None ELSE Some(<<>>)

Colours_default(version) ==
    IF version \in MIN_VERSION..4 THEN None ELSE Some(<<>>)

\* The other seven sections are line lists: `key: value` pairs in General,
\* Editor, Metadata and Difficulty, comma-separated lists (and // comments)
\* in Events, TimingPoints and HitObjects.  An entry is kept as its line.
KeyValueSections == {GeneralName, EditorName, MetadataName, DifficultyName}

has_char(l, c) == \E k \in 1..Len(l) : l[k] = c

entry_ok(name, l) ==
    IF name \in KeyValueSections THEN has_char(l, ":")
    ELSE has_char(l, ",") \/ starts_with(l, 1, <<"/", "/">>)

RECURSIVE entries_loop(_, _, _, _)
entries_loop(name, ls, k, entries) ==
    IF k > Len(ls) THEN SectionOk(Some(entries))
    ELSE IF Len(ls[k]) = 0 THEN entries_loop(name, ls, k + 1, entries)
    ELSE IF ~entry_ok(name, ls[k]) THEN SectionErr("SectionParseError", k - 1)
    ELSE entries_loop(name, ls, k + 1, Append(entries, ls[k]))

Entries_from_str(name, s) == entries_loop(name, lines(s), 1, <<>>)

Entries_to_string(entries) == join(entries, <<LF>>)

\* X::from_str_vN(section), for the section named name
Section_from_str(name, s, version) ==
    IF name = ColoursName THEN Colours_from_str(s, version)
    ELSE Entries_from_str(name, s)

\* x.to_string_v14()
Section_to_string_v14(name, val) ==
    IF name = ColoursName THEN Colours_to_string(val, 14).val
    ELSE Entries_to_string(val)

\* Error::processing_line: the error's line index is counted from the line
\* the section body starts at
processing_line(res, line_number) ==
    IF res.ok THEN res ELSE [res EXCEPT !.line = res.line + line_number]

-----------------------------------------------------------------------------
(* Key and value lines (osu_file/parsers.rs).                              *)

\* tuple((terminated(field_name, field_separator), field_value)) at position
\* i: field_name is is_not(": "), field_separator is ws(char(':')), that is
\* delimited(multispace0, char(':'), multispace0), field_value is is_not of
\* the line break characters; is_not takes one character at least
field(s, i) ==
    LET j == take_till(s, i, {":", " "})
        c == take_while(s, j, Multispace)
        v == take_while(s, c + 1, Multispace)
        e == take_till(s, v, {CR, LF})
    IN  IF j = i \/ c > Len(s) \/ s[c] # ":" \/ e = v
        THEN [ok |-> FALSE, pos |-> i, pair |-> <<>>]
        ELSE [ok |-> TRUE, pos |-> e, pair |-> <<SubSeq(s, i, j - 1), SubSeq(s, v, e - 1)>>]

\* get_colon_field_value_lines: many0(field)(s), the pairs and the text left
RECURSIVE many0_field(_, _, _)
many0_field(s, i, pairs) ==
    LET f == field(s, i)
    IN  IF ~f.ok THEN [ok |-> TRUE, pairs |-> pairs, rest |-> SubSeq(s, i, Len(s))]
        ELSE many0_field(s, f.pos, Append(pairs, f.pair))

get_colon_field_value_lines(s) == many0_field(s, 1, <<>>)

-----------------------------------------------------------------------------
(* Storyboard commands (events/storyboard/cmds).  A command is             *)
(* [kind, easing, start_time, end_time, frames, commands]: frames are the  *)
(* keyframes [start, end] of an animation command, the parameters of a     *)
(* Parameter command, <<loop_count>> of a Loop and the trigger fields of a *)
(* Trigger; commands are the children of a Loop or Trigger.  A decimal is  *)
(* kept as its text.                                                       *)

\* the fields of s between the separators c
RECURSIVE split(_, _)
split(s, c) ==
    LET j == take_till(s, 1, {c})
    IN  IF j > Len(s) THEN <<s>>
        ELSE <<SubSeq(s, 1, j - 1)>> \o split(SubSeq(s, j + 1, Len(s)), c)

\* str::parse::<i32>; ok = FALSE when tok is no integer
parse_int(tok) ==
    LET neg == Len(tok) >= 1 /\ tok[1] = "-"
        digits == IF Len(tok) >= 1 /\ tok[1] \in {"-", "+"} THEN SubSeq(tok, 2, Len(tok)) ELSE tok
        v == IF digits = <<>> THEN -1 ELSE parse_digits(digits, 1, 0, 2147483647)
    IN  [ok |-> v # -1, val |-> IF neg THEN 0 - v ELSE v]

\* tok parses as a decimal: an optional sign, digits, at most one point
is_decimal(tok) ==
    LET digits == IF Len(tok) >= 1 /\ tok[1] = "-" THEN SubSeq(tok, 2, Len(tok)) ELSE tok
    IN  /\ \E k \in 1..Len(digits) : is_digit(digits[k])
        /\ \A k \in 1..Len(digits) : is_digit(digits[k]) \/ digits[k] = "."
        /\ Cardinality({k \in 1..Len(digits) : digits[k] = "."}) <= 1

\* the command kinds by discriminator
CommandKinds ==
    [F |-> "Fade", M |-> "Move", MX |-> "MoveX", MY |-> "MoveY", S |-> "Scale",
     V |-> "VectorScale", R |-> "Rotate", C |-> "Colour", P |-> "Parameter",
     L |-> "Loop", T |-> "Trigger"]

\* the text of a discriminator
Letters(d) ==
    IF d = "MX" THEN <<"M", "X">> ELSE IF d = "MY" THEN <<"M", "Y">> ELSE <<d>>

\* the number of values of one end of a keyframe
channels(kind) ==
    IF kind \in {"Move", "VectorScale"} THEN 2
    ELSE IF kind = "Colour" THEN 3
    ELSE 1

CommandOk(c) == [ok |-> TRUE, err |-> "", val |-> c]
CommandErr(e) == [ok |-> FALSE, err |-> e, val |-> <<>>]

\* one keyframe of the values vals: the start values, then the end values,
\* an omitted end value being the paired start value
keyframe_mutant(vals, ch) ==
    [start |-> SubSeq(vals, 1, ch),
     end |-> [i \in 1..ch |-> IF ch + i <= Len(vals) THEN vals[ch + i] ELSE <<>>]]

keyframe(vals, ch) ==
    [start |-> SubSeq(vals, 1, ch),
     end |-> [i \in 1..ch |-> IF ch + i <= Len(vals) /\ vals[ch + i] # <<>>
                              THEN vals[ch + i] ELSE vals[i]]]

\* the keyframes of the values: groups of 2 * ch values, the last group
\* with ch values at least
RECURSIVE keyframes(_, _)
keyframes(vals, ch) ==
    IF Len(vals) = 0 THEN <<>>
    ELSE IF Len(vals) <= 2 * ch THEN <<keyframe(vals, ch)>>
    ELSE <<keyframe(SubSeq(vals, 1, 2 * ch), ch)>>
         \o keyframes(SubSeq(vals, 2 * ch + 1, Len(vals)), ch)

\* the values make whole keyframes, of which the last may lack end values
arity_ok(n, ch) == n >= ch /\ (n % (2 * ch) = 0 \/ n % (2 * ch) >= ch)

\* the k-th value is a start value of its keyframe
is_start(k, ch) == ((k - 1) % (2 * ch)) + 1 <= ch

\* the values of an animation command are numbers, the start values given
values_ok(vals, kind) ==
    \A k \in 1..Len(vals) :
        IF vals[k] = <<>> THEN ~is_start(k, channels(kind))
        ELSE IF kind = "Colour" THEN parse_int(vals[k]).ok
        ELSE is_decimal(vals[k])

ParameterTexts == {<<"H">>, <<"V">>, <<"A">>}

HitSoundTag == <<"H", "i", "t", "S", "o", "u", "n", "d">>
TriggerTexts == {<<"P", "a", "s", "s", "i", "n", "g">>, <<"F", "a", "i", "l", "i", "n", "g">>}

\* an animation command `easing,start_time,end_time,values`; an omitted
\* end_time is the start_time
animation(kind, fields) ==
    IF Len(fields) < 5 THEN CommandErr("MissingField")
    ELSE
    LET easing == parse_int(fields[2])
        start_time == parse_int(fields[3])
        end_time == IF fields[4] = <<>> THEN start_time ELSE parse_int(fields[4])
        vals == SubSeq(fields, 5, Len(fields))
    IN  IF ~(easing.ok /\ start_time.ok /\ end_time.ok) THEN CommandErr("InvalidNumber")
        ELSE IF kind = "Parameter"
        THEN IF \A k \in 1..Len(vals) : vals[k] \in ParameterTexts
             THEN CommandOk([kind |-> kind, easing |-> easing.val,
                             start_time |-> start_time.val, end_time |-> end_time.val,
                             frames |-> vals, commands |-> <<>>])
             ELSE CommandErr("InvalidParameter")
        ELSE IF ~arity_ok(Len(vals), channels(kind)) THEN CommandErr("InvalidKeyframeArity")
        ELSE IF ~values_ok(vals, kind) THEN CommandErr("InvalidNumber")
        ELSE CommandOk([kind |-> kind, easing |-> easing.val,
                        start_time |-> start_time.val, end_time |-> end_time.val,
                        frames |-> keyframes(vals, channels(kind)), commands |-> <<>>])

\* `L,start_time,loop_count`
loop(fields) ==
    IF Len(fields) # 3 THEN CommandErr("MissingField")
    ELSE
    LET start_time == parse_int(fields[2])
        loop_count == parse_int(fields[3])
    IN  IF ~(start_time.ok /\ loop_count.ok) THEN CommandErr("InvalidNumber")
        ELSE CommandOk([kind |-> "Loop", easing |-> 0, start_time |-> start_time.val,
                        end_time |-> start_time.val, frames |-> <<fields[3]>>,
                        commands |-> <<>>])

\* `T,trigger_type,start_time,end_time?,group_number?`
trigger(fields) ==
    IF Len(fields) \notin 3..5 THEN CommandErr("MissingField")
    ELSE IF ~(starts_with(fields[2], 1, HitSoundTag) \/ fields[2] \in TriggerTexts)
    THEN CommandErr("InvalidTriggerType")
    ELSE
    LET start_time == parse_int(fields[3])
        end_time == IF Len(fields) < 4 \/ fields[4] = <<>> THEN start_time
                    ELSE parse_int(fields[4])
    IN  IF ~(start_time.ok /\ end_time.ok) THEN CommandErr("InvalidNumber")
        ELSE IF Len(fields) = 5 /\ ~parse_int(fields[5]).ok THEN CommandErr("InvalidNumber")
        ELSE CommandOk([kind |-> "Trigger", easing |-> 0, start_time |-> start_time.val,
                        end_time |-> end_time.val,
                        frames |-> <<fields[2]>> \o SubSeq(fields, 5, Len(fields)),
                        commands |-> <<>>])

\* Command::from_str: dispatch on the discriminator, the first field
Command_from_str_mutant(s) ==
    LET fields == split(s, ",")
    IN  IF fields[1] = <<"L">> THEN loop(fields)
        ELSE IF fields[1] = <<"T">> THEN trigger(fields)
        ELSE animation(IF \E d \in DOMAIN CommandKinds : Letters(d) = fields[1]
                       THEN CommandKinds[CHOOSE d \in DOMAIN CommandKinds :
                                            Letters(d) = fields[1]]
                       ELSE "Fade", fields)

Command_from_str(s) ==
    LET fields == split(s, ",")
    IN  IF ~\E d \in DOMAIN CommandKinds : Letters(d) = fields[1]
        THEN CommandErr("UnknownCommandType")
        ELSE LET kind == CommandKinds[CHOOSE d \in DOMAIN CommandKinds :
                                         Letters(d) = fields[1]]
             IN  IF kind = "Loop" THEN loop(fields)
                 ELSE IF kind = "Trigger" THEN trigger(fields)
                 ELSE animation(kind, fields)

\* format!("{}", n) of a signed integer
fmt_i32(n) == IF n < 0 THEN <<"-">> \o fmt_int(0 - n) ELSE fmt_int(n)

\* the values of a keyframe as written: of the last keyframe the trailing
\* end values that equal their start value are left out
frame_values(frame, last) ==
    LET ch == Len(frame.start)
        differ == {i \in 1..ch : frame.end[i] # frame.start[i]}
        m == IF ~last THEN ch
             ELSE IF differ = {} THEN 0
             ELSE CHOOSE i \in differ : \A j \in differ : j <= i
    IN  frame.start \o SubSeq(frame.end, 1, m)

RECURSIVE frames_values(_, _)
frames_values(frames, k) ==
    IF k > Len(frames) THEN <<>>
    ELSE frame_values(frames[k], k = Len(frames)) \o frames_values(frames, k + 1)

\* Display for Command: the line of the command without its children
Command_to_string(c) ==
    LET letters == Letters(CHOOSE d \in DOMAIN CommandKinds : CommandKinds[d] = c.kind)
    IN  IF c.kind = "Loop"
        THEN join(<<letters, fmt_i32(c.start_time)>> \o c.frames, <<",">>)
        ELSE IF c.kind = "Trigger"
        THEN join(<<letters, c.frames[1], fmt_i32(c.start_time), fmt_i32(c.end_time)>>
                  \o SubSeq(c.frames, 2, Len(c.frames)), <<",">>)
        ELSE join(<<letters, fmt_i32(c.easing), fmt_i32(c.start_time),
                    IF c.end_time = c.start_time THEN <<>> ELSE fmt_i32(c.end_time)>>
                  \o (IF c.kind = "Parameter" THEN c.frames
                      ELSE frames_values(c.frames, 1)), <<",">>)

-----------------------------------------------------------------------------
(* General (osu_file/general.rs).  A General is a record of the 19 fields; *)
(* an integer field holds its number, a boolean field TRUE or FALSE, an    *)
(* enum field the name of its variant, a text or decimal field its text.   *)

\* the variants of the enums in the order of their numbers
CountdownSpeed == <<"NoCountdown", "Normal", "Half", "Double">>
GameMode == <<"Osu", "Taiko", "Catch", "Mania">>
\* the variants of the enums with the text of each
SampleSet ==
    <<[variant |-> "Normal", text |-> <<"N", "o", "r", "m", "a", "l">>],
      [variant |-> "Soft", text |-> <<"S", "o", "f", "t">>],
      [variant |-> "Drum", text |-> <<"D", "r", "u", "m">>]>>
OverlayPosition ==
    <<[variant |-> "NoChange", text |-> <<"N", "o", "C", "h", "a", "n", "g", "e">>],
      [variant |-> "Below", text |-> <<"B", "e", "l", "o", "w">>],
      [variant |-> "Above", text |-> <<"A", "b", "o", "v", "e">>]>>

KeyOk(v) == [ok |-> TRUE, err |-> "", val |-> v]
KeyErr(e) == [ok |-> FALSE, err |-> e, val |-> <<>>]

\* TryFrom<i32> for CountdownSpeed and for GameMode: variants is the enum
try_from_mutant(variants, value) ==
    IF value \in 0..Len(variants) THEN KeyOk(variants[IF value = 0 THEN 1 ELSE value])
    ELSE KeyErr("EnumParseError")

try_from(variants, value) ==
    IF value \in 0..(Len(variants) - 1) THEN KeyOk(variants[value + 1])
    ELSE KeyErr("EnumParseError")

\* Display for CountdownSpeed and for GameMode: the number of the variant
number_of(variants, v) == fmt_int((CHOOSE k \in 1..Len(variants) : variants[k] = v) - 1)

\* FromStr for SampleSet and for OverlayPosition: variants is the enum
variant_from_str(variants, s) ==
    IF \E k \in 1..Len(variants) : variants[k].text = s
    THEN KeyOk(variants[CHOOSE k \in 1..Len(variants) : variants[k].text = s].variant)
    ELSE KeyErr("EnumParseError")

\* Display for SampleSet and for OverlayPosition: the text of the variant
text_of(variants, v) == variants[CHOOSE k \in 1..Len(variants) : variants[k].variant = v].text


\* the keys of General in the order of Display, each with its field, the
\* kind of its value and the value of General::default
GeneralKeys ==
    <<
      [key |-> <<"A", "u", "d", "i", "o", "F", "i", "l", "e", "n", "a", "m",
                 "e">>,
       field |-> "audio_filename", type |-> "string", default |-> <<>>],
      [key |-> <<"A", "u", "d", "i", "o", "L", "e", "a", "d", "I", "n">>,
       field |-> "audio_lead_in", type |-> "lead_in", default |-> 0],
      [key |-> <<"A", "u", "d", "i", "o", "H", "a", "s", "h">>,
       field |-> "audio_hash", type |-> "string", default |-> <<>>],
      [key |-> <<"P", "r", "e", "v", "i", "e", "w", "T", "i", "m", "e">>,
       field |-> "preview_time", type |-> "integer", default |-> -1],
      [key |-> <<"C", "o", "u", "n", "t", "d", "o", "w", "n">>,
       field |-> "countdown", type |-> "countdown", default |-> "Normal"],
      [key |-> <<"S", "a", "m", "p", "l", "e", "S", "e", "t">>,
       field |-> "sample_set", type |-> "sample_set", default |-> "Normal"],
      [key |-> <<"S", "t", "a", "c", "k", "L", "e", "n", "i", "e", "n", "c",
                 "y">>,
       field |-> "stack_leniency", type |-> "decimal", default |-> <<"0", ".", "7">>],
      [key |-> <<"M", "o", "d", "e">>,
       field |-> "mode", type |-> "mode", default |-> "Osu"],
      [key |-> <<"L", "e", "t", "t", "e", "r", "b", "o", "x", "I", "n", "B",
                 "r", "e", "a", "k", "s">>,
       field |-> "letterbox_in_breaks", type |-> "bool", default |-> FALSE],
      [key |-> <<"S", "t", "o", "r", "y", "F", "i", "r", "e", "I", "n", "F",
                 "r", "o", "n", "t">>,
       field |-> "story_fire_in_front", type |-> "bool", default |-> TRUE],
      [key |-> <<"U", "s", "e", "S", "k", "i", "n", "S", "p", "r", "i", "t",
                 "e", "s">>,
       field |-> "use_skin_sprites", type |-> "bool", default |-> FALSE],
      [key |-> <<"A", "l", "w", "a", "y", "s", "S", "h", "o", "w", "P", "l",
                 "a", "y", "f", "i", "e", "l", "d">>,
       field |-> "always_show_playfield", type |-> "bool", default |-> FALSE],
      [key |-> <<"O", "v", "e", "r", "l", "a", "y", "P", "o", "s", "i", "t",
                 "i", "o", "n">>,
       field |-> "overlay_position", type |-> "overlay", default |-> "NoChange"],
      [key |-> <<"S", "k", "i", "n", "P", "r", "e", "f", "e", "r", "e", "n",
                 "c", "e">>,
       field |-> "skin_preference", type |-> "string", default |-> <<>>],
      [key |-> <<"E", "p", "i", "l", "e", "p", "s", "y", "W", "a", "r", "n",
                 "i", "n", "g">>,
       field |-> "epilepsy_warning", type |-> "bool", default |-> FALSE],
      [key |-> <<"C", "o", "u", "n", "t", "d", "o", "w", "n", "O", "f", "f",
                 "s", "e", "t">>,
       field |-> "countdown_offset", type |-> "integer", default |-> 0],
      [key |-> <<"S", "p", "e", "c", "i", "a", "l", "S", "t", "y", "l", "e">>,
       field |-> "special_style", type |-> "bool", default |-> FALSE],
      [key |-> <<"W", "i", "d", "e", "s", "c", "r", "e", "e", "n", "S", "t",
                 "o", "r", "y", "b", "o", "a", "r", "d">>,
       field |-> "widescreen_storyboard", type |-> "bool", default |-> FALSE],
      [key |-> <<"S", "a", "m", "p", "l", "e", "s", "M", "a", "t", "c", "h",
                 "P", "l", "a", "y", "b", "a", "c", "k", "R", "a", "t", "e">>,
       field |-> "samples_match_playback_rate", type |-> "bool", default |-> FALSE]>>

\* str::trim: s without the whitespace at its ends
trim(s) ==
    LET ks == {k \in 1..Len(s) : s[k] \notin Multispace}
    IN  IF ks = {} THEN <<>>
        ELSE SubSeq(s, CHOOSE k \in ks : \A j \in ks : k <= j,
                       CHOOSE k \in ks : \A j \in ks : j <= k)

\* parse_zero_one_bool
parse_zero_one_bool(value) ==
    LET v == parse_int(value)
    IN  IF ~v.ok THEN KeyErr("ParseIntError")
        ELSE IF v.val = 0 THEN KeyOk(FALSE)
        ELSE IF v.val = 1 THEN KeyOk(TRUE)
        ELSE KeyErr("ParseBoolError")

\* the arm of the match on the key: the value of the field, or the error.
\* AudioLeadIn takes value.parse().unwrap_err(): unwrap_err panics when
\* the value parses, and hands the parse error on as the value otherwise.
key_value(type, value) ==
    IF type = "string" THEN KeyOk(value)
    ELSE IF type = "lead_in"
    THEN IF parse_int(value).ok THEN KeyErr("panic") ELSE KeyOk("ParseIntError")
    ELSE IF type = "integer"
    THEN IF parse_int(value).ok THEN KeyOk(parse_int(value).val) ELSE KeyErr("ParseIntError")
    ELSE IF type \in {"countdown", "mode"}
    THEN IF parse_int(value).ok
         THEN try_from(IF type = "mode" THEN GameMode ELSE CountdownSpeed, parse_int(value).val)
         ELSE KeyErr("ParseIntError")
    ELSE IF type = "sample_set" THEN variant_from_str(SampleSet, value)
    ELSE IF type = "overlay" THEN variant_from_str(OverlayPosition, value)
    ELSE IF type = "decimal"
    THEN IF is_decimal(value) THEN KeyOk(value) ELSE KeyErr("ParseFloatError")
    ELSE parse_zero_one_bool(value)

\* Default for General
General_default ==
    [f \in {GeneralKeys[k].field : k \in 1..Len(GeneralKeys)} |->
        GeneralKeys[CHOOSE k \in 1..Len(GeneralKeys) : GeneralKeys[k].field = f].default]

GeneralOk(g) == [ok |-> TRUE, err |-> "", line |-> <<>>, val |-> g]
GeneralErr(e, l) == [ok |-> FALSE, err |-> e, line |-> l, val |-> <<>>]

\* General::from_str: the loop over the lines from the k-th on;
\* line.split_once(DELIMITER) splits at the first `:`
RECURSIVE general_loop(_, _, _)
general_loop(ls, k, general) ==
    IF k > Len(ls) THEN GeneralOk(general)
    ELSE
    LET line == ls[k]
        j == take_till(line, 1, {":"})
        key == trim(SubSeq(line, 1, j - 1))
        value == trim(SubSeq(line, j + 1, Len(line)))
        arms == {n \in 1..Len(GeneralKeys) : GeneralKeys[n].key = key}
    IN  IF j > Len(line) THEN GeneralErr("MissingValue", line)
        ELSE IF arms = {} THEN GeneralErr("InvalidKey", line)
        ELSE LET arm == GeneralKeys[CHOOSE n \in arms : TRUE]
                 r == key_value(arm.type, value)
             IN  IF ~r.ok THEN GeneralErr(r.err, line)
                 ELSE general_loop(ls, k + 1, [general EXCEPT ![arm.field] = r.val])

\* General::from_str
General_from_str(s) == general_loop(lines(trim(s)), 1, General_default)

\* format!("{}", ..) of the value of a field; a decimal is printed without
\* the zeros at the end of its fraction
value_text(type, v) ==
    IF type = "string" THEN v
    ELSE IF type = "decimal"
    THEN LET last == CHOOSE k \in 1..Len(v) : v[k] # "0" /\ \A j \in (k + 1)..Len(v) : v[j] = "0"
         IN  IF \A k \in 1..Len(v) : v[k] # "." THEN v
             ELSE SubSeq(v, 1, IF v[last] = "." THEN last - 1 ELSE last)
    ELSE IF type \in {"integer", "lead_in"} THEN fmt_i32(v)
    ELSE IF type = "countdown" THEN number_of(CountdownSpeed, v)
    ELSE IF type = "mode" THEN number_of(GameMode, v)
    ELSE IF type = "sample_set" THEN text_of(SampleSet, v)
    ELSE IF type = "overlay" THEN text_of(OverlayPosition, v)
    ELSE IF v THEN <<"1">> ELSE <<"0">>

\* Display for General: the 19 lines `Key: value`, joined by "\r\n"
General_to_string(g) ==
    join([k \in 1..Len(GeneralKeys) |->
             GeneralKeys[k].key \o <<":", " ">>
             \o value_text(GeneralKeys[k].type, g[GeneralKeys[k].field])], CRLF)

-----------------------------------------------------------------------------
(* Events and the storyboard assembler (events, events/storyboard).  An    *)
(* event is [type, fields, commands]: the type of the line, its fields     *)
(* after the type, and for a storyboard object the tree of its commands.   *)

CommentTag == <<"/", "/">>
SpriteTag == <<"S", "p", "r", "i", "t", "e">>
AnimationTag == <<"A", "n", "i", "m", "a", "t", "i", "o", "n">>

\* the event types by the first field of the line
EventTypes ==
    {[tag |-> <<"0">>, type |-> "Background", fields |-> 4],
     [tag |-> <<"2">>, type |-> "Break", fields |-> 2],
     [tag |-> SpriteTag, type |-> "Sprite", fields |-> 5],
     [tag |-> AnimationTag, type |-> "Animation", fields |-> 8]}

EventOk(e) == [ok |-> TRUE, err |-> "", val |-> e]
EventErr(e) == [ok |-> FALSE, err |-> e, val |-> <<>>]

\* the fields of an event that are numbers
number_fields(type) ==
    IF type = "Background" THEN {1, 3, 4}
    ELSE IF type = "Break" THEN {1, 2}
    ELSE IF type = "Sprite" THEN {4, 5}
    ELSE {4, 5, 6, 7}

\* Event::from_str of a line without indentation: a comment, a normal
\* event or the header of a storyboard object
Event_from_str(l) ==
    IF starts_with(l, 1, CommentTag)
    THEN EventOk([type |-> "Comment", fields |-> <<SubSeq(l, 3, Len(l))>>,
                  commands |-> <<>>])
    ELSE
    LET fields == split(l, ",")
        types == {t \in EventTypes : t.tag = fields[1]}
    IN  IF types = {} THEN EventErr("UnknownEventType")
        ELSE LET t == CHOOSE t \in types : TRUE
                 rest == SubSeq(fields, 2, Len(fields))
             IN  IF Len(rest) # t.fields THEN EventErr("MissingField")
                 ELSE IF \E k \in number_fields(t.type) : ~parse_int(rest[k]).ok
                 THEN EventErr("InvalidNumber")
                 ELSE EventOk([type |-> t.type, fields |-> rest, commands |-> <<>>])

\* the number of leading space or tab characters of a line
indentation(l) == take_while(l, 1, Space) - 1

\* the depth of the deepest command list that is open after the commands
\* cmds: the list itself, and the lists of the last Loop or Trigger in it
RECURSIVE OpenDepth(_)
OpenDepth(cmds) ==
    IF cmds = <<>> THEN 1
    ELSE LET prev == cmds[Len(cmds)]
         IN  IF prev.kind \in {"Loop", "Trigger"} THEN 1 + OpenDepth(prev.commands)
             ELSE 1

\* the commands cmds with c appended to the open list of depth d
AppendAt_mutant(cmds, d, c) == Append(cmds, c)

RECURSIVE AppendAt(_, _, _)
AppendAt(cmds, d, c) ==
    IF d = 1 THEN Append(cmds, c)
    ELSE [cmds EXCEPT ![Len(cmds)].commands = AppendAt(@, d - 1, c)]

\* the line l of indentation d > 0 after the events: a command of the
\* open storyboard object
command_line_mutant(events, l, d) ==
    IF events = <<>> \/ events[Len(events)].type \notin {"Sprite", "Animation"}
    THEN EventErr("InvalidIndentation")
    ELSE LET c == Command_from_str(SubSeq(l, d + 1, Len(l)))
             open == OpenDepth(events[Len(events)].commands)
         IN  IF ~c.ok THEN EventErr(c.err)
             ELSE EventOk([events EXCEPT ![Len(events)].commands =
                               AppendAt(@, IF d > open THEN open ELSE d, c.val)])

command_line(events, l, d) ==
    IF events = <<>> \/ events[Len(events)].type \notin {"Sprite", "Animation"}
    THEN EventErr("InvalidIndentation")
    ELSE IF d > OpenDepth(events[Len(events)].commands)
    THEN EventErr("InvalidIndentation")
    ELSE LET c == Command_from_str(SubSeq(l, d + 1, Len(l)))
         IN  IF ~c.ok THEN EventErr(c.err)
             ELSE EventOk([events EXCEPT ![Len(events)].commands =
                               AppendAt(@, d, c.val)])

\* Events::from_str: the loop over the lines from the k-th on
RECURSIVE events_loop_mutant(_, _, _)
events_loop_mutant(ls, k, events) ==
    IF k > Len(ls) THEN SectionOk(Some(events))
    ELSE LET d == indentation(ls[k])
             r == IF d = 0 THEN Event_from_str(ls[k]) ELSE command_line(events, ls[k], d)
         IN  IF ~r.ok THEN SectionErr(r.err, k)
             ELSE IF d = 0
             THEN events_loop_mutant(ls, k + 1,
                      IF \E j \in 1..Len(events) : events[j] = r.val THEN events
                      ELSE Append(events, r.val))
             ELSE events_loop_mutant(ls, k + 1, r.val)

RECURSIVE events_loop(_, _, _)
events_loop(ls, k, events) ==
    IF k > Len(ls) THEN SectionOk(Some(events))
    ELSE LET d == indentation(ls[k])
             r == IF d = 0 THEN Event_from_str(ls[k]) ELSE command_line(events, ls[k], d)
         IN  IF ~r.ok THEN SectionErr(r.err, k)
             ELSE IF d = 0 THEN events_loop(ls, k + 1, Append(events, r.val))
             ELSE events_loop(ls, k + 1, r.val)

\* Events::from_str
Events_from_str(s) == events_loop(lines(s), 1, <<>>)

\* the lines of the commands from the k-th on and of their children, each
\* with the indentation of its depth d
RECURSIVE commands_lines(_, _, _)
commands_lines(cmds, k, d) ==
    IF k > Len(cmds) THEN <<>>
    ELSE <<[i \in 1..d |-> " "] \o Command_to_string(cmds[k])>>
         \o commands_lines(cmds[k].commands, 1, d + 1)
         \o commands_lines(cmds, k + 1, d)

\* the line of an event without its commands
Event_to_string(e) ==
    IF e.type = "Comment" THEN CommentTag \o e.fields[1]
    ELSE join(<<(CHOOSE t \in EventTypes : t.type = e.type).tag>>
              \o [k \in 1..Len(e.fields) |->
                     IF k \in number_fields(e.type) THEN fmt_i32(parse_int(e.fields[k]).val)
                     ELSE e.fields[k]], <<",">>)

RECURSIVE events_lines(_, _)
events_lines(events, k) ==
    IF k > Len(events) THEN <<>>
    ELSE <<Event_to_string(events[k])>> \o commands_lines(events[k].commands, 1, 1)
         \o events_lines(events, k + 1)

\* Display for Events
Events_to_string(events) == join(events_lines(events, 1), <<LF>>)

-----------------------------------------------------------------------------
(* OsuFile (osu_file/mod.rs).                                              *)

\* Default for OsuFile
OsuFile_default ==
    [version |-> LATEST_VERSION] @@ [f \in Fields |-> Some(<<>>)]

\* OsuFile::new
OsuFile_new_mutant == OsuFile_default

OsuFile_new ==
    [version |-> LATEST_VERSION] @@ [f \in Fields |-> None]

\* the value of the file variable while no OsuFile exists
NoFile == [version |-> 0] @@ [f \in Fields |-> None]

\* one block of Display: format!("[Name]\n{}", section.to_string_v14())
block(k, val) ==
    <<"[">> \o Sections[k].name \o <<"]", LF>> \o Section_to_string_v14(Sections[k].name, val)

\* the blocks of the sections from k on that are present
RECURSIVE blocks_from_mutant(_, _)
blocks_from_mutant(f, k) ==
    IF k > Len(Sections) THEN <<>>
    ELSE blocks_from_mutant(f, k + 1)
         \o (IF f[Sections[k].field].some THEN <<block(k, f[Sections[k].field].val)>> ELSE <<>>)

RECURSIVE blocks_from(_, _)
blocks_from(f, k) ==
    IF k > Len(Sections) THEN <<>>
    ELSE (IF f[Sections[k].field].some THEN <<block(k, f[Sections[k].field].val)>> ELSE <<>>)
         \o blocks_from(f, k + 1)

\* Display for OsuFile; done = FALSE stands for the unimplemented! panic
fmt_mutant(f) ==
    [done |-> TRUE,
     text |-> join(<<VersionTag \o fmt_int(f.version)>> \o blocks_from(f, 1), <<LF, LF>>)]

fmt(f) ==
    IF f.version = 14
    THEN [done |-> TRUE,
          text |-> join(<<VersionTag \o fmt_int(f.version)>> \o blocks_from(f, 1), <<LF, LF>>)]
    ELSE [done |-> FALSE, text |-> <<>>]

Ok(f) == [ok |-> TRUE, err |-> "", line |-> 0, file |-> f]
Err(e, l) == [ok |-> FALSE, err |-> e, line |-> l, file |-> NoFile]

\* trailing_ws(inner): inner, then multispace0; the position after the
\* whitespace that starts at j
trailing_ws(s, j) == take_while(s, j, Multispace)

\* version_number at position i: the text up to the line ending parsed as a
\* u8, the whitespace after it consumed
version_number(s, i) ==
    LET j == take_till(s, i, {CR, LF})
        v == parse_u8(SubSeq(s, i, j - 1))
    IN  [ok |-> v # -1, val |-> v, pos |-> trailing_ws(s, j)]

\* section at position i: tuple((multispace0, section_name, multispace0,
\* section_until))
section(s, i) ==
    LET a == take_while(s, i, Multispace)
        b == take_till(s, a + 1, {"]", CR, LF})
        c == take_while(s, b + 1, Multispace)
        d == take_till(s, c, {"["})
    IN  IF a <= Len(s) /\ s[a] = "[" /\ b <= Len(s) /\ s[b] = "]"
        THEN [ok |-> TRUE, ws |-> SubSeq(s, i, a - 1), name |-> SubSeq(s, a + 1, b - 1),
              ws2 |-> SubSeq(s, b + 1, c - 1), body |-> SubSeq(s, c, d - 1), pos |-> d]
        ELSE [ok |-> FALSE, ws |-> <<>>, name |-> <<>>, ws2 |-> <<>>, body |-> <<>>,
              pos |-> i]

\* many0(section) from position i: the sections matched until one fails
RECURSIVE many0_section(_, _)
many0_section(s, i) ==
    LET sec == section(s, i)
    IN  IF sec.ok THEN <<sec>> \o many0_section(s, sec.pos) ELSE <<>>

contains(section_parsed, name) ==
    \E k \in 1..Len(section_parsed) : section_parsed[k] = name

\* the for loop of from_str over the matched sections, from the k-th on
RECURSIVE sections_loop(_, _, _, _, _)
sections_loop(sections, k, line_number, section_parsed, f) ==
    IF k > Len(sections) THEN Ok(f)
    ELSE
    LET sec == sections[k]
        section_name_line == line_number + lines_count(sec.ws)
        section_start_line == section_name_line + 1
        after_ws2 == section_name_line + lines_count(sec.ws2)
    IN  IF contains(section_parsed, sec.name)
        THEN Err("DuplicateSections", section_name_line)
        ELSE IF sec.name \notin SectionNames
        THEN Err("UnknownSection", section_name_line)
        ELSE
        LET res == processing_line(Section_from_str(sec.name, sec.body, f.version),
                                   section_start_line)
        IN  IF ~res.ok THEN Err(res.err, res.line)
            ELSE sections_loop(sections, k + 1, after_ws2 + lines_count(sec.body),
                               Append(section_parsed, sec.name),
                               [f EXCEPT ![field_of(sec.name)] = res.val])

\* (MIN_VERSION..=LATEST_VERSION).contains(&version)
supported_mutant(version) == version \in MIN_VERSION..(LATEST_VERSION + 1)

supported(version) == version \in MIN_VERSION..LATEST_VERSION

\* the error of from_str when tag("osu file format v") fails on s
tag_error_mutant(s) == "InvalidFileVersion"

tag_error(s) ==
    IF starts_with(s, 1, <<LF>>) \/ starts_with(s, 1, CRLF)
    THEN "FileVersionInWrongLine"
    ELSE "FileVersionDefinedWrong"

\* the sections that many0(section) matches after the version line of s
sections_of(s) ==
    many0_section(s, version_number(s, Len(VersionTag) + 1).pos)

\* OsuFile::from_str
from_str(s) ==
    IF ~starts_with(s, 1, VersionTag) THEN Err(tag_error(s), 0)
    ELSE
    LET version == version_number(s, Len(VersionTag) + 1)
    IN  IF ~version.ok THEN Err("InvalidFileVersion", 0)
        ELSE IF ~supported(version.val) THEN Err("InvalidFileVersion", 0)
        ELSE sections_loop(many0_section(s, version.pos), 1, 1, <<>>,
                           [version |-> version.val] @@ [f \in Fields |-> None])

-----------------------------------------------------------------------------
(* The texts that are written and parsed.                                  *)

FooName == <<"F", "o", "o">>

\* the names a written header carries: the eight sections and an unknown one
HeaderNames == SectionNames \cup {FooName}

\* the versions of the written documents that carry sections
DocVersions == {MIN_VERSION, 4, 5, LATEST_VERSION - 1, LATEST_VERSION}

EolText(e) == IF e = "crlf" THEN CRLF ELSE <<LF>>

RECURSIVE repeat(_, _)
repeat(t, n) == IF n = 0 THEN <<>> ELSE t \o repeat(t, n - 1)

\* a well-formed body line of the section
PlainLine(name) ==
    IF name = ColoursName THEN ComboTag \o <<"1", " ", ":", " ", "1", ",", "2", ",", "3">>
    ELSE IF name \in {EventsName, TimingPointsName, HitObjectsName} THEN <<"1", ",", "2">>
    ELSE <<"k", ":", "1">>

\* a well-formed body line whose value holds brackets
BracketLine(name) ==
    IF name = ColoursName THEN PlainLine(name)
    ELSE IF name \in {EventsName, TimingPointsName, HitObjectsName}
    THEN <<"1", ",", "[", "b", "]">>
    ELSE <<"k", ":", "[", "b", "]">>

\* a body line that the parser of the section rejects
BadLine(name) ==
    IF name = ColoursName THEN ComboTag \o <<"1", " ", ":", " ", "x">>
    ELSE <<"f", "o", "o">>

BodyLine(name, kind) ==
    IF kind = "bracket" THEN BracketLine(name)
    ELSE IF kind = "indent" THEN <<" ">> \o PlainLine(name)
    ELSE IF kind = "bad" THEN BadLine(name)
    ELSE PlainLine(name)

\* the n body lines of a section, each after a line ending; of the kind
\* "bad" only the last line is bad, the lines before it are well formed
BodyText(name, kind, n, eol) ==
    IF kind = "bad" /\ n >= 1
    THEN repeat(eol \o PlainLine(name), n - 1) \o eol \o BadLine(name)
    ELSE repeat(eol \o BodyLine(name, kind), n)

BodyKinds == {"plain", "bracket", "indent"}

\* the first lines written besides `osu file format v<N>`
OddPrefixes == {<<>>, <<"o", "s", "u", " ", "f", "i", "l", "e", " ",
                       "f", "o", "r", "m", "a", "t", " ">>}
OddNumbers == {<<>>, <<"x">>, <<"+", "1", "4">>, <<"0", "1", "4">>, <<"-", "1">>,
               <<"1", "4", " ">>, <<"1", "4", "x">>}

Styles(blanks, gaps, nbodies, kinds, leads, prefixes, numbers) ==
    [eol : {"lf", "crlf"}, blank : blanks, gap : gaps, nbody : nbodies,
     kind : kinds, lead : leads, prefix : prefixes, number : numbers]

\* the line the last written line is on
LastLine == IF Len(written) = 0 THEN 0 ELSE written[Len(written)].last

SectionsWritten == Len(written) - 1

TypeOK ==
    /\ pc \in {"write", "parsed", "printed"}
    /\ origin \in {"none", "new", "default", "from_str"}

Init ==
    /\ input = <<>>
    /\ style \in {st \in Styles(0..MaxBlank, {0}, 0..MaxBodyLines, BodyKinds, {0}, {VersionTag},
                                {fmt_int(v) : v \in DocVersions}) :
                     st.nbody = 0 => st.kind = "plain"}
    /\ written = <<>>
    /\ pc = "write"
    /\ origin = "none"
    /\ file = NoFile
    /\ result = Err("", 0)
    /\ output = [done |-> FALSE, text |-> <<>>]

\* the writer writes the leading blank lines and the first line
WriteVersion ==
    /\ pc = "write"
    /\ written = <<>>
    /\ input' = repeat(EolText(style.eol), style.lead) \o style.prefix \o style.number
    /\ written' = <<[name |-> <<>>, line |-> style.lead + 1, last |-> style.lead + 1,
                      junk |-> FALSE]>>
    /\ UNCHANGED <<style, pc, origin, file, result, output>>

\* the writer writes a section: the blank lines, the header, the body lines
WriteSection(name) ==
    /\ pc = "write"
    /\ Len(written) > 0
    /\ SectionsWritten < MaxSections
    /\ LET eol == EolText(style.eol)
           line == LastLine + style.blank + 1
       IN  /\ input' = input \o repeat(eol, style.blank + 1) \o <<"[">> \o name \o <<"]">>
                       \o repeat(eol, style.gap)
                       \o BodyText(name, style.kind, style.nbody, eol)
           /\ written' = Append(written, [name |-> name, line |-> line,
                                          last |-> line + style.gap + style.nbody,
                                          junk |-> FALSE])
    /\ UNCHANGED <<style, pc, origin, file, result, output>>

\* OsuFile::from_str(input)
FromStr ==
    /\ pc = "write"
    /\ result' = from_str(input)
    /\ file' = result'.file
    /\ origin' = "from_str"
    /\ pc' = "parsed"
    /\ UNCHANGED <<input, style, written, output>>

\* OsuFile::new()
New ==
    /\ pc = "write"
    /\ input = <<>>
    /\ file' = OsuFile_new
    /\ origin' = "new"
    /\ pc' = "parsed"
    /\ UNCHANGED <<input, style, written, result, output>>

\* OsuFile::default()
Default ==
    /\ pc = "write"
    /\ input = <<>>
    /\ file' = OsuFile_default
    /\ origin' = "default"
    /\ pc' = "parsed"
    /\ UNCHANGED <<input, style, written, result, output>>

\* file.to_string(), on the OsuFile that new, default or an Ok from_str gave
to_string ==
    /\ pc = "parsed"
    /\ origin = "from_str" => result.ok
    /\ output' = fmt(file)
    /\ pc' = "printed"
    /\ UNCHANGED <<input, style, written, origin, file, result>>

Next ==
    \/ WriteVersion
    \/ \E name \in HeaderNames : WriteSection(name)
    \/ FromStr
    \/ New
    \/ Default
    \/ to_string

Spec == Init /\ [][Next]_vars

\* The documents of the second specification vary the first line: leading
\* blank lines, the text before the number, the number; one [General]
\* section may follow.
InitVersion ==
    /\ input = <<>>
    /\ style \in Styles({1}, {0}, {1}, {"plain"}, 0..MaxLead, {VersionTag} \cup OddPrefixes,
                        {fmt_int(n) : n \in 0..MaxVersionNumber} \cup OddNumbers)
    /\ written = <<>>
    /\ pc = "write"
    /\ origin = "none"
    /\ file = NoFile
    /\ result = Err("", 0)
    /\ output = [done |-> FALSE, text |-> <<>>]

WriteGeneral ==
    /\ SectionsWritten = 0
    /\ WriteSection(GeneralName)

NextVersion ==
    \/ WriteVersion
    \/ WriteGeneral
    \/ FromStr
    \/ to_string

SpecVersion == InitVersion /\ [][NextVersion]_vars

\* The documents of the third specification vary the section bodies: blank
\* lines between a header and its first body line, a last body line that the
\* section's parser rejects, and text that belongs to no section.
BodyNames == {GeneralName, EventsName, ColoursName}

BodyVersions == {MIN_VERSION, 4, 5, LATEST_VERSION}

\* a line that is no header, and a header without its closing bracket
\* followed by a body line
JunkLine == <<"f", "o", "o">>
UnclosedHeader(eol) == <<"[">> \o EditorName \o eol \o PlainLine(EditorName)
JunkKinds == {"line", "unclosed"}

InitBody ==
    /\ input = <<>>
    /\ style \in {st \in Styles({1}, 0..MaxGap, 0..(MaxBodyLines + 1), {"plain", "bad"},
                                {0}, {VersionTag}, {fmt_int(v) : v \in BodyVersions}) :
                     st.nbody = 0 => st.kind = "plain"}
    /\ written = <<>>
    /\ pc = "write"
    /\ origin = "none"
    /\ file = NoFile
    /\ result = Err("", 0)
    /\ output = [done |-> FALSE, text |-> <<>>]

\* the writer writes, after the blank lines, text that is no section
WriteJunk(j) ==
    /\ pc = "write"
    /\ Len(written) > 0
    /\ SectionsWritten < MaxSections
    /\ \A k \in 1..Len(written) : ~written[k].junk
    /\ LET eol == EolText(style.eol)
           line == LastLine + style.blank + 1
       IN  /\ input' = input \o repeat(eol, style.blank + 1)
                       \o (IF j = "line" THEN JunkLine ELSE UnclosedHeader(eol))
           /\ written' = Append(written, [name |-> IF j = "line" THEN JunkLine
                                                   ELSE <<"[">> \o EditorName,
                                          line |-> line,
                                          last |-> IF j = "line" THEN line ELSE line + 1,
                                          junk |-> TRUE])
    /\ UNCHANGED <<style, pc, origin, file, result, output>>

WriteBodySection ==
    \E name \in BodyNames : WriteSection(name)

NextBody ==
    \/ WriteVersion
    \/ WriteBodySection
    \/ \E j \in JunkKinds : WriteJunk(j)
    \/ FromStr
    \/ to_string

SpecBody == InitBody /\ [][NextBody]_vars

\* The fourth specification applies Colours::from_str and Colours::to_string
\* to Colours texts: lines in canonical form and other lines, joined by LF.
ColourVersions == {0, 2, MIN_VERSION, 4, 5, LATEST_VERSION}

ColourKinds == {"Combo", "SliderTrackOverride", "SliderBorder"}

\* the colours written in canonical form
CanonColours ==
    [kind : {"Combo"}, num : {1, 12},
     rgb : {[red |-> 1, green |-> 2, blue |-> 3, alpha |-> None],
            [red |-> 0, green |-> 255, blue |-> 10, alpha |-> None]}]
    \cup [kind : {"SliderTrackOverride", "SliderBorder"}, num : {0},
          rgb : {[red |-> 1, green |-> 2, blue |-> 3, alpha |-> None],
                 [red |-> 0, green |-> 255, blue |-> 10, alpha |-> None]}]

\* the line `ComboN : r,g,b`, `SliderTrackOverride : r,g,b` or
\* `SliderBorder : r,g,b` of a colour
CanonLine(c) ==
    (IF c.kind = "Combo" THEN ComboTag \o fmt_int(c.num)
     ELSE IF c.kind = "SliderTrackOverride" THEN SliderTrackOverrideTag
     ELSE SliderBorderTag)
    \o <<" ", ":", " ">>
    \o fmt_int(c.rgb.red) \o <<",">> \o fmt_int(c.rgb.green) \o <<",">> \o fmt_int(c.rgb.blue)

\* lines that are not in canonical form, each with the fault it has: the
\* error of the colour type, or the Rgb error of its rgb part, or what
\* follows the blue component ("Trailing", "InvalidAlpha"); "none" for a
\* line without fault
OtherLines ==
    LET combo1 == ComboTag \o <<"1", " ", ":", " ">>
    IN  {[text |-> <<"x">>, fault |-> "UnknownColourType"],
         [text |-> combo1 \o <<"x">>, fault |-> "InvalidRed"],
         [text |-> combo1 \o <<"2", "5", "6", ",", "2", ",", "3">>, fault |-> "InvalidRed"],
         [text |-> combo1 \o <<"1", ",", "x", ",", "3">>, fault |-> "InvalidGreen"],
         [text |-> combo1 \o <<"1", ",", "2">>, fault |-> "MissingBlue"],
         [text |-> combo1 \o <<"1", ",", "2", ",", "3", "x">>, fault |-> "Trailing"],
         [text |-> combo1 \o <<"1", ",", "2", ",", "3", ",", "a", "b", "c">>,
          fault |-> "InvalidAlpha"],
         [text |-> ComboTag \o <<"1", ":", "1", ",", "2", ",", "3">>, fault |-> "none"],
         [text |-> combo1 \o <<"1", ",", "2", ",", "3", ",", "4">>, fault |-> "none"],
         [text |-> combo1 \o SliderBorderTag \o <<" ", ":", " ", "1", ",", "2", ",", "3">>,
          fault |-> "InvalidRed"],
         [text |-> <<>>, fault |-> "none"]}

InitColours ==
    /\ input = <<>>
    /\ style \in [version : ColourVersions]
    /\ written = <<>>
    /\ pc = "write"
    /\ origin = "none"
    /\ file = NoFile
    /\ result = SectionErr("", 0)
    /\ output = [done |-> FALSE, text |-> <<>>]

\* the writer appends a line to the Colours text
WriteLine(text, canon, colour, fault) ==
    /\ pc = "write"
    /\ Len(written) < MaxColourLines
    /\ input' = IF written = <<>> THEN text ELSE input \o <<LF>> \o text
    /\ written' = Append(written, [canon |-> canon, colour |-> colour,
                                   text |-> text, fault |-> fault])
    /\ UNCHANGED <<style, pc, origin, file, result, output>>

WriteCanonLine ==
    \E c \in CanonColours : WriteLine(CanonLine(c), TRUE, c, "none")

WriteOtherLine ==
    \E l \in OtherLines : WriteLine(l.text, FALSE, <<>>, l.fault)

\* Colours::from_str(input, version)
ColoursFromStr ==
    /\ pc = "write"
    /\ result' = Colours_from_str(input, style.version)
    /\ origin' = "from_str"
    /\ pc' = "parsed"
    /\ UNCHANGED <<input, style, written, file, output>>

\* colours.to_string(version), on the Colours that from_str gave
ColoursToString ==
    /\ pc = "parsed"
    /\ result.ok
    /\ result.val.some
    /\ LET text == Colours_to_string(result.val.val, style.version)
       IN  output' = [done |-> text.some, text |-> text.val]
    /\ pc' = "printed"
    /\ UNCHANGED <<input, style, written, origin, file, result>>

NextColours ==
    \/ WriteCanonLine
    \/ WriteOtherLine
    \/ ColoursFromStr
    \/ ColoursToString

SpecColours == InitColours /\ [][NextColours]_vars

\* The fifth specification applies Command::from_str and to_string to one
\* command line: a discriminator, a comma, the other fields.
Discriminators == DOMAIN CommandKinds \cup {"Q", "f"}

\* the other fields of the command lines written
TailTexts ==
    LET times == <<"0", ",", "5", "0", "0", ",", "1", "0", "0", "0">>
    IN  [F1 |-> times \o <<",", "0">>,
         F2 |-> times \o <<",", "0", ",", "0", ".", "5">>,
         F3 |-> <<"0", ",", "-", "2", "8", ",", ",", "1">>,
         M |-> times \o <<",", "0", ",", "1", ",", "2", ",", "3">>,
         C |-> times \o <<",", "0", ",", "0", ",", "0", ",", "2", "5", "5", ",",
                          "2", "5", "5", ",", "2", "5", "5">>,
         P |-> times \o <<",", "H">>,
         L |-> <<"0", ",", "1", "0">>,
         T |-> HitSoundTag \o <<",", "5", "0", "0", ",", "1", "0", "0", "0">>,
         X |-> <<"x">>]

Tails == {TailTexts[k] : k \in DOMAIN TailTexts}

\* fields that make a command of the discriminator d
GoodTail(d) ==
    IF d \in {"M", "V"} THEN TailTexts.M
    ELSE IF d = "C" THEN TailTexts.C
    ELSE IF d = "P" THEN TailTexts.P
    ELSE IF d = "L" THEN TailTexts.L
    ELSE IF d = "T" THEN TailTexts.T
    ELSE TailTexts.F2

InitCommands ==
    /\ input = <<>>
    /\ style = [eol |-> "lf"]
    /\ written = <<>>
    /\ pc = "write"
    /\ origin = "none"
    /\ file = NoFile
    /\ result = CommandErr("")
    /\ output = [done |-> FALSE, text |-> <<>>]

WriteDiscriminator ==
    \E d \in Discriminators :
        /\ pc = "write"
        /\ written = <<>>
        /\ input' = Letters(d)
        /\ written' = <<d>>
        /\ UNCHANGED <<style, pc, origin, file, result, output>>

WriteTail ==
    \E tail \in Tails :
        /\ pc = "write"
        /\ Len(written) = 1
        /\ input' = input \o <<",">> \o tail
        /\ written' = Append(written, tail)
        /\ UNCHANGED <<style, pc, origin, file, result, output>>

\* Command::from_str(input)
CommandFromStr ==
    /\ pc = "write"
    /\ Len(written) = 2
    /\ result' = Command_from_str(input)
    /\ origin' = "from_str"
    /\ pc' = "parsed"
    /\ UNCHANGED <<input, style, written, file, output>>

\* command.to_string()
CommandToString ==
    /\ pc = "parsed"
    /\ result.ok
    /\ output' = [done |-> TRUE, text |-> Command_to_string(result.val)]
    /\ pc' = "printed"
    /\ UNCHANGED <<input, style, written, origin, file, result>>

NextCommands ==
    \/ WriteDiscriminator
    \/ WriteTail
    \/ CommandFromStr
    \/ CommandToString

SpecCommands == InitCommands /\ [][NextCommands]_vars

\* The texts of an Events section: lines without indentation (events and
\* object headers) and indented command lines.

EventKinds == {"background", "break", "comment", "sprite"}

\* the line of an event or of an object header
EventLine(kind) ==
    IF kind = "background"
    THEN <<"0", ",", "0", ",", "b", "g", ".", "j", "p", "g", ",", "0", ",", "0">>
    ELSE IF kind = "break" THEN <<"2", ",", "1", "0", "0", ",", "1", "6", "3">>
    ELSE IF kind = "comment" THEN <<"/", "/", "c">>
    ELSE SpriteTag \o <<",", "P", "a", "s", "s", ",", "C", "e", "n", "t", "r", "e", ",",
                        "a", ".", "p", "n", "g", ",", "3", "2", "0", ",", "2", "4", "0">>

LineCommands == {"T", "L", "M"}

\* the text of a command line after its indentation
CommandLine(d) ==
    IF d = "T" THEN <<"T", ",">> \o HitSoundTag \o <<",", "0", ",", "1", "0">>
    ELSE IF d = "L" THEN <<"L", ",", "1", "0", ",", "1", "0">>
    ELSE <<"M", ",", "3", ",", "1", "0", "0", ",", "1", "2", "0", ",", "1", "4", "0", ",",
           "1", "8", "0", ".", "1", "2", "3", "1", "2", "3", ",", "2", "0", "0", ",",
           "2", "0", "0">>

InitEvents ==
    /\ input = <<>>
    /\ style = [eol |-> "lf"]
    /\ written = <<>>
    /\ pc = "write"
    /\ origin = "none"
    /\ file = NoFile
    /\ result = SectionErr("", 0)
    /\ output = [done |-> FALSE, text |-> <<>>]

\* one more line of the text
WriteEventsLine(depth, kind, text) ==
    /\ pc = "write"
    /\ Len(written) < MaxEventLines
    /\ input' = IF written = <<>> THEN text ELSE input \o <<LF>> \o text
    /\ written' = Append(written, [depth |-> depth, kind |-> kind])
    /\ UNCHANGED <<style, pc, origin, file, result, output>>

WriteEvent == \E kind \in EventKinds : WriteEventsLine(0, kind, EventLine(kind))

\* a command line, at most two levels deeper than the line before
WriteCommand ==
    \E d \in LineCommands, depth \in 1..MaxDepth :
        /\ depth <= (IF written = <<>> THEN 0 ELSE written[Len(written)].depth) + 2
        /\ WriteEventsLine(depth, d, [i \in 1..depth |-> " "] \o CommandLine(d))

\* Events::from_str(input)
EventsFromStr ==
    /\ pc = "write"
    /\ written # <<>>
    /\ result' = Events_from_str(input)
    /\ origin' = "from_str"
    /\ pc' = "parsed"
    /\ UNCHANGED <<input, style, written, file, output>>

\* events.to_string()
EventsToString ==
    /\ pc = "parsed"
    /\ result.ok
    /\ output' = [done |-> TRUE, text |-> Events_to_string(result.val.val)]
    /\ pc' = "printed"
    /\ UNCHANGED <<input, style, written, origin, file, result>>

NextEvents ==
    \/ WriteEvent
    \/ WriteCommand
    \/ EventsFromStr
    \/ EventsToString

SpecEvents == InitEvents /\ [][NextEvents]_vars

\* The seventh specification applies Rgb::to_string to an Rgb value and
\* Rgb::from_str to the text it gives.
RgbValues ==
    [red : {0, 1, 255}, green : {0, 2, 255}, blue : {3, 10, 255},
     alpha : {None, Some(0), Some(4), Some(255)}]

InitRgb ==
    /\ input = <<>>
    /\ style \in [rgb : RgbValues]
    /\ written = <<>>
    /\ pc = "value"
    /\ origin = "none"
    /\ file = NoFile
    /\ result = RgbErr("")
    /\ output = [done |-> FALSE, text |-> <<>>]

\* rgb.to_string(version)
RgbToString ==
    /\ pc = "value"
    /\ output' = [done |-> TRUE, text |-> Rgb_to_string(style.rgb)]
    /\ input' = Rgb_to_string(style.rgb)
    /\ pc' = "printed"
    /\ UNCHANGED <<style, written, origin, file, result>>

\* Rgb::from_str of the text of to_string
RgbFromStr ==
    /\ pc = "printed"
    /\ result' = Rgb_from_str(input)
    /\ origin' = "from_str"
    /\ pc' = "parsed"
    /\ UNCHANGED <<input, style, written, file, output>>

NextRgb ==
    \/ RgbToString
    \/ RgbFromStr

SpecRgb == InitRgb /\ [][NextRgb]_vars

\* The eighth specification applies get_colon_field_value_lines to texts of
\* `name : value` lines.
FieldParts ==
    [name : {<<"A">>, <<"K", "e", "y">>},
     sep : {<<":">>, <<":", " ">>, <<" ", ":", " ">>},
     value : {<<>>, <<"1">>, <<"a", " ", "b">>}]

InitFields ==
    /\ input = <<>>
    /\ style \in [eol : {"lf", "crlf"}]
    /\ written = <<>>
    /\ pc = "write"
    /\ origin = "none"
    /\ file = NoFile
    /\ result = [ok |-> FALSE, pairs |-> <<>>, rest |-> <<>>]
    /\ output = [done |-> FALSE, text |-> <<>>]

\* one more line `name sep value` of the text
WriteField ==
    \E f \in FieldParts :
        /\ pc = "write"
        /\ Len(written) < MaxFieldLines
        /\ input' = (IF written = <<>> THEN <<>> ELSE input \o EolText(style.eol))
                    \o f.name \o f.sep \o f.value
        /\ written' = Append(written, f)
        /\ UNCHANGED <<style, pc, origin, file, result, output>>

\* get_colon_field_value_lines(input)
GetFields ==
    /\ pc = "write"
    /\ written # <<>>
    /\ result' = get_colon_field_value_lines(input)
    /\ origin' = "fields"
    /\ pc' = "parsed"
    /\ UNCHANGED <<input, style, written, file, output>>

NextFields ==
    \/ WriteField
    \/ GetFields

SpecFields == InitFields /\ [][NextFields]_vars

\* the values of the text of general_parse, key by key: the text of the
\* value and the value of the field that the test expects
GeneralValues ==
    <<
      [text |-> <<"t", "e", "s", "t", ".", "m", "p", "3">>, value |-> <<"t", "e", "s", "t", ".", "m", "p", "3">>],
      [text |-> <<"5", "5", "5">>, value |-> 555],
      [text |-> <<"n", "o", ".", "m", "p", "3">>, value |-> <<"n", "o", ".", "m", "p", "3">>],
      [text |-> <<"5">>, value |-> 5],
      [text |-> <<"3">>, value |-> "Double"],
      [text |-> <<"S", "o", "f", "t">>, value |-> "Soft"],
      [text |-> <<"0", ".", "9">>, value |-> <<"0", ".", "9">>],
      [text |-> <<"1">>, value |-> "Taiko"],
      [text |-> <<"1">>, value |-> TRUE],
      [text |-> <<"0">>, value |-> FALSE],
      [text |-> <<"1">>, value |-> TRUE],
      [text |-> <<"0">>, value |-> FALSE],
      [text |-> <<"A", "b", "o", "v", "e">>, value |-> "Above"],
      [text |-> <<"m", "y", "s", "k", "i", "n">>, value |-> <<"m", "y", "s", "k", "i", "n">>],
      [text |-> <<"1">>, value |-> TRUE],
      [text |-> <<"1", "2", "0">>, value |-> 120],
      [text |-> <<"1">>, value |-> TRUE],
      [text |-> <<"1">>, value |-> TRUE],
      [text |-> <<"1">>, value |-> TRUE]>>

\* The ninth specification writes the text of a General section, one line
\* per key in the order of Display, with the values of general_parse, and
\* applies General::from_str and Display to it.
GeneralLine(k) == GeneralKeys[k].key \o <<":", " ">> \o GeneralValues[k].text

BoolKeys == {k \in 1..Len(GeneralKeys) : GeneralKeys[k].type = "bool"}

NoFault == [text |-> <<>>, err |-> "none"]

\* the lines that General::from_str refuses, each with the error it gives
FaultLines ==
    {[text |-> GeneralKeys[k].key \o <<":", " ", "2">>, err |-> "ParseBoolError"] : k \in BoolKeys}
    \cup {[text |-> <<"F", "o", "o", ":", " ", "1">>, err |-> "InvalidKey"],
          [text |-> GeneralKeys[1].key, err |-> "MissingValue"],
          [text |-> <<"M", "o", "d", "e", ":", " ", "4">>, err |-> "EnumParseError"],
          [text |-> <<"C", "o", "u", "n", "t", "d", "o", "w", "n", ":", " ", "-", "1">>,
           err |-> "EnumParseError"],
          [text |-> <<"S", "p", "e", "c", "i", "a", "l", "S", "t", "y", "l", "e", ":", " ", "x">>,
           err |-> "ParseIntError"]}

\* the keys that the text leaves out
OmitSets == {{}, {2}, {2, 8}, {2, 5, 9, 10}, {10}}

\* the key before which the refused line stands; one past the last key for
\* the end of the text
FaultPlaces == {1, 3, Len(GeneralKeys) + 1}

GeneralStyles ==
    {s \in [eol : {"lf", "crlf"}, omit : OmitSets, fault : FaultLines \cup {NoFault},
            at : FaultPlaces] : s.fault = NoFault => s.at = 1}

\* the number of the next key to write
NextKey == Cardinality({k \in 1..Len(written) : written[k].key > 0}) + 1

FaultPending ==
    /\ style.fault # NoFault
    /\ style.at = NextKey
    /\ \A k \in 1..Len(written) : written[k].key > 0

InitGeneral ==
    /\ input = <<>>
    /\ style \in GeneralStyles
    /\ written = <<>>
    /\ pc = "write"
    /\ origin = "none"
    /\ file = NoFile
    /\ result = GeneralErr("", <<>>)
    /\ output = [done |-> FALSE, text |-> <<>>]

WriteGeneralLine(key, text) ==
    /\ pc = "write"
    /\ input' = IF written = <<>> \/ \A k \in 1..Len(written) : ~written[k].given
                THEN text ELSE input \o EolText(style.eol) \o text
    /\ written' = Append(written, [key |-> key, given |-> TRUE, text |-> text])
    /\ UNCHANGED <<style, pc, origin, file, result, output>>

\* the line of the next key
WriteKey ==
    /\ NextKey <= Len(GeneralKeys)
    /\ NextKey \notin style.omit
    /\ ~FaultPending
    /\ WriteGeneralLine(NextKey, GeneralLine(NextKey))

\* the next key is left out of the text
OmitKey ==
    /\ pc = "write"
    /\ NextKey <= Len(GeneralKeys)
    /\ NextKey \in style.omit
    /\ ~FaultPending
    /\ written' = Append(written, [key |-> NextKey, given |-> FALSE, text |-> <<>>])
    /\ UNCHANGED <<input, style, pc, origin, file, result, output>>

\* the line that from_str refuses
WriteFault ==
    /\ FaultPending
    /\ WriteGeneralLine(0, style.fault.text)

\* General::from_str(input)
GeneralFromStr ==
    /\ pc = "write"
    /\ NextKey > Len(GeneralKeys)
    /\ ~FaultPending
    /\ result' = General_from_str(input)
    /\ origin' = "general"
    /\ pc' = "parsed"
    /\ UNCHANGED <<input, style, written, file, output>>

\* general.to_string()
GeneralToString ==
    /\ pc = "parsed"
    /\ origin = "general"
    /\ result.ok
    /\ output' = [done |-> TRUE, text |-> General_to_string(result.val)]
    /\ pc' = "done"
    /\ UNCHANGED <<input, style, written, origin, file, result>>

NextGeneral ==
    \/ WriteKey
    \/ OmitKey
    \/ WriteFault
    \/ GeneralFromStr
    \/ GeneralToString

SpecGeneral == InitGeneral /\ [][NextGeneral]_vars

\* The tenth specification applies the parsers of the enums of General to
\* numbers and texts, and Display to what they return.
EnumNumbers == -2..5

EnumTexts ==
    {<<"N", "o", "r", "m", "a", "l">>, <<"S", "o", "f", "t">>, <<"D", "r", "u", "m">>,
     <<"N", "o", "C", "h", "a", "n", "g", "e">>, <<"B", "e", "l", "o", "w">>,
     <<"A", "b", "o", "v", "e">>, <<"n", "o", "r", "m", "a", "l">>, <<"S", "o", "f", "t", " ">>,
     <<"H", "a", "r", "d">>, <<"0">>, <<>>}

NumberEnums == [CountdownSpeed |-> CountdownSpeed, GameMode |-> GameMode]

TextEnums == [SampleSet |-> SampleSet, OverlayPosition |-> OverlayPosition]

InitEnums ==
    /\ input \in EnumTexts
    /\ style \in [enum : DOMAIN NumberEnums \cup DOMAIN TextEnums, number : EnumNumbers]
    /\ written = <<>>
    /\ pc = "value"
    /\ origin = "none"
    /\ file = NoFile
    /\ result = KeyErr("")
    /\ output = [done |-> FALSE, text |-> <<>>]

\* CountdownSpeed::try_from(number), GameMode::try_from(number)
EnumTryFrom ==
    /\ pc = "value"
    /\ style.enum \in DOMAIN NumberEnums
    /\ result' = try_from(NumberEnums[style.enum], style.number)
    /\ pc' = "parsed"
    /\ UNCHANGED <<input, style, written, origin, file, output>>

\* SampleSet::from_str(input), OverlayPosition::from_str(input)
EnumFromStr ==
    /\ pc = "value"
    /\ style.enum \in DOMAIN TextEnums
    /\ result' = variant_from_str(TextEnums[style.enum], input)
    /\ pc' = "parsed"
    /\ UNCHANGED <<input, style, written, origin, file, output>>

\* format!("{}", ..) of the variant
EnumToString ==
    /\ pc = "parsed"
    /\ result.ok
    /\ output' = [done |-> TRUE,
                  text |-> IF style.enum \in DOMAIN NumberEnums
                           THEN number_of(NumberEnums[style.enum], result.val)
                           ELSE text_of(TextEnums[style.enum], result.val)]
    /\ pc' = "done"
    /\ UNCHANGED <<input, style, written, origin, file, result>>

NextEnums ==
    \/ EnumTryFrom
    \/ EnumFromStr
    \/ EnumToString

SpecEnums == InitEnums /\ [][NextEnums]_vars

-----------------------------------------------------------------------------
(* What the writer knows of the text it wrote.                             *)

\* the k-th section header written
Header(k) == written[k + 1]

\* the place of a name in the order General .. HitObjects, 0 for other names
SectionIndex(name) ==
    IF name \in SectionNames
    THEN CHOOSE k \in 1..Len(Sections) : Sections[k].name = name
    ELSE 0

\* the first line is `osu file format v<n>`, on line 1
VersionWritten(n) ==
    /\ Len(written) >= 1
    /\ style.lead = 0
    /\ style.prefix = VersionTag
    /\ style.number = fmt_int(n)

KnownHeaders == \A k \in 1..SectionsWritten : Header(k).name \in SectionNames

DistinctHeaders ==
    \A j, k \in 1..SectionsWritten : j < k => Header(j).name # Header(k).name

InCanonicalOrder ==
    \A j, k \in 1..SectionsWritten :
        j < k => SectionIndex(Header(j).name) < SectionIndex(Header(k).name)

\* the text is a version-14 document in canonical form: LF line endings, the
\* sections in canonical order, one blank line before each header, no
\* trailing line ending, every section with its body lines
CanonicalText ==
    /\ VersionWritten(14)
    /\ KnownHeaders
    /\ InCanonicalOrder
    /\ SectionsWritten > 0 =>
          /\ style.eol = "lf"
          /\ style.blank = 1
          /\ style.nbody >= 1
          /\ style.kind \in {"plain", "bracket"}

\* the text is a valid document of a supported version: known sections, each
\* once, well-formed body lines without brackets or indentation
ValidText ==
    /\ \E n \in MIN_VERSION..LATEST_VERSION : VersionWritten(n)
    /\ KnownHeaders
    /\ DistinctHeaders
    /\ style.kind = "plain"

-----------------------------------------------------------------------------
(* The claims.                                                             *)

\* C1: for a version-14 document text in canonical form, the header-only
\* document included, from_str succeeds and to_string of the result returns
\* the input text exactly.
C1_CanonicalRoundTrip ==
    (origin = "from_str" /\ CanonicalText) =>
        /\ result.ok
        /\ pc = "printed" => (output.done /\ output.text = input)

\* C2, as claimed: for every supported version and every input that from_str
\* accepts, to_string completes and equals the input text exactly.
C2_EveryVersionRoundTrip ==
    (origin = "from_str" /\ pc = "printed") => (output.done /\ output.text = input)

\* the text is a version-14 document whose known sections are in canonical
\* order, each header after exactly one blank line
CanonicalLayout ==
    /\ VersionWritten(14)
    /\ KnownHeaders
    /\ InCanonicalOrder
    /\ SectionsWritten > 0 => style.blank = 1

\* C2, amended: to_string of a parsed document completes exactly when the
\* version is 14 (it panics as unimplemented for 3..13), and its text equals
\* the input only when the input has its sections in canonical order with
\* exactly one blank line before each header.
C2_RoundTripOnlyCanonicalV14 ==
    (origin = "from_str" /\ pc = "printed") =>
        /\ output.done <=> file.version = 14
        /\ (output.done /\ output.text = input) => CanonicalLayout

C2_Witness ==
    /\ origin = "from_str"
    /\ pc = "printed"
    /\ SectionsWritten = 2
    /\ output.done
    /\ output.text = input

\* C3: a valid document with CR/LF line endings is accepted and to_string
\* writes CR/LF line endings; one with LF is written with LF: the output has
\* the line endings of the input.
C3_LineEndingKept ==
    (origin = "from_str" /\ ValidText /\ SectionsWritten > 0) =>
        /\ result.ok
        /\ (pc = "printed" /\ output.done) =>
              (has_char(output.text, CR) <=> style.eol = "crlf")

\* the text C4 describes: the header line, then for each present section in
\* the order General .. HitObjects a blank line and the block
\* `[Name]`, line feed, section body
RECURSIVE BlocksText(_, _)
BlocksText(f, present) ==
    IF present = {} THEN <<>>
    ELSE LET k == CHOOSE m \in present : \A n \in present : m <= n
         IN  <<LF, LF, "[">> \o Sections[k].name \o <<"]", LF>>
             \o Section_to_string_v14(Sections[k].name, f[Sections[k].field].val)
             \o BlocksText(f, present \ {k})

CanonicalOutput(f) ==
    VersionTag \o <<"1", "4">>
    \o BlocksText(f, {k \in 1..Len(Sections) : f[Sections[k].field].some})

\* C4: to_string of a version-14 OsuFile is the line `osu file format v14`
\* followed by one block per present section and none for an absent one,
\* joined by one blank line, always in the order General, Editor, Metadata,
\* Difficulty, Events, TimingPoints, Colours, HitObjects, whatever order the
\* input had.
C4_CanonicalBlocks ==
    (pc = "printed" /\ file.version = 14) =>
        (output.done /\ output.text = CanonicalOutput(file))

C4_Witness ==
    /\ pc = "printed"
    /\ origin = "from_str"
    /\ output.done
    /\ SectionsWritten = 2
    /\ SectionIndex(Header(1).name) > SectionIndex(Header(2).name)
    /\ SectionIndex(Header(2).name) > 0
    /\ file[field_of(Header(1).name)].some
    /\ file[field_of(Header(2).name)].some

\* C5: OsuFile::new() has version LATEST_VERSION and every section absent,
\* OsuFile::default() has version LATEST_VERSION and every section present,
\* and parsing the header-only document `osu file format v14` gives a value
\* equal to OsuFile::new().
C5_NewDefaultSmallest ==
    /\ origin = "new" =>
          (file.version = LATEST_VERSION /\ \A f \in Fields : ~file[f].some)
    /\ origin = "default" =>
          (file.version = LATEST_VERSION /\ \A f \in Fields : file[f].some)
    /\ (origin = "from_str" /\ input = VersionTag \o <<"1", "4">>) =>
          (result.ok /\ file = OsuFile_new)

C5_Witness ==
    /\ origin = "from_str"
    /\ pc = "printed"
    /\ input = VersionTag \o <<"1", "4">>
    /\ result.ok

\* C6: from_str fails with InvalidFileVersion whenever the number N of the
\* first line `osu file format v<N>` lies outside MIN_VERSION..LATEST_VERSION,
\* and every Ok result has the version N, inside that range.
C6_VersionGate ==
    origin = "from_str" =>
        /\ \A n \in 0..MaxVersionNumber :
              VersionWritten(n) =>
                  /\ n \notin MIN_VERSION..LATEST_VERSION =>
                        (~result.ok /\ result.err = "InvalidFileVersion")
                  /\ result.ok => file.version = n
        /\ result.ok => file.version \in MIN_VERSION..LATEST_VERSION

C6_Witness ==
    /\ origin = "from_str"
    /\ VersionWritten(LATEST_VERSION + 1)
    /\ SectionsWritten = 1
    /\ ~result.ok
    /\ result.err = "InvalidFileVersion"

\* the number written after the first line's prefix is a decimal number
NumberWritten ==
    /\ style.number # <<>>
    /\ \A k \in 1..Len(style.number) : is_digit(style.number[k])

\* C7: from_str fails with FileVersionInWrongLine if and only if a version
\* definition `osu file format v<N>` is in the input but not on the first
\* line: it comes after one or more leading blank lines.
C7_WrongLineIffVersionFound ==
    (origin = "from_str" /\ Len(written) >= 1) =>
        ((~result.ok /\ result.err = "FileVersionInWrongLine")
            <=> (style.lead >= 1 /\ style.prefix = VersionTag /\ NumberWritten))

\* the first line of the input is `osu file format v<N>` with N a number
FirstLineWellFormed ==
    /\ Len(written) >= 1
    /\ style.lead = 0
    /\ style.prefix = VersionTag
    /\ NumberWritten

\* C8, as claimed: from_str fails with FileVersionDefinedWrong whenever the
\* first line is absent (the empty input) or is not `osu file format v<N>`
\* with N a number.
C8_DefinedWrongWhenMalformed ==
    (origin = "from_str" /\ ~FirstLineWellFormed) =>
        (~result.ok /\ result.err = "FileVersionDefinedWrong")

\* the numbers written that are no decimal number of 0..255, signed or not
NotAByte ==
    {<<>>, <<"x">>, <<"-", "1">>, <<"1", "4", " ">>, <<"1", "4", "x">>}
    \cup {fmt_int(n) : n \in 256..MaxVersionNumber}

\* the input starts with a line break: leading blank lines, or an empty
\* first line that a section follows
StartsWithLineBreak ==
    /\ Len(written) >= 1
    /\ \/ style.lead >= 1
       \/ (style.prefix \o style.number = <<>> /\ SectionsWritten >= 1)

\* C8, amended: for an input that does not start with a line break, from_str
\* fails with FileVersionDefinedWrong exactly when the input does not start
\* with `osu file format v`, the empty input included; when it starts with
\* `osu file format v` and the rest of the first line is no number of 0..255,
\* from_str fails with InvalidFileVersion.
C8_DefinedWrongExactly ==
    (origin = "from_str" /\ ~StartsWithLineBreak) =>
        /\ (~result.ok /\ result.err = "FileVersionDefinedWrong")
              <=> (Len(written) = 0 \/ style.prefix # VersionTag)
        /\ (Len(written) >= 1 /\ style.prefix = VersionTag /\ style.number \in NotAByte) =>
              (~result.ok /\ result.err = "InvalidFileVersion")

C8_Witness ==
    /\ origin = "from_str"
    /\ Len(written) >= 1
    /\ style.lead = 0
    /\ style.prefix # VersionTag
    /\ style.prefix # <<>>
    /\ NumberWritten
    /\ ~result.ok
    /\ result.err = "FileVersionDefinedWrong"

\* the headers before the k-th are known section names, each once, and the
\* body lines written hold no bracket
HeadersBeforeValid(k) ==
    /\ style.kind \in {"plain", "indent"}
    /\ \A j \in 1..(k - 1) : Header(j).name \in SectionNames
    /\ \A i, j \in 1..(k - 1) : i < j => Header(i).name # Header(j).name

\* C9: when a section name occurs a second time, from_str fails with
\* DuplicateSections and the line number of the error is the 1-based line of
\* the second header in the text, for each of the eight names and every
\* supported version.
C9_DuplicateSectionsLine ==
    \A k \in 2..SectionsWritten :
        (/\ origin = "from_str"
         /\ HeadersBeforeValid(k)
         /\ \E j \in 1..(k - 1) : Header(j).name = Header(k).name) =>
            /\ ~result.ok
            /\ result.err = "DuplicateSections"
            /\ result.line = Header(k).line

\* C10: a header whose name is none of the eight section names makes
\* from_str fail with UnknownSection, and the error carries the 1-based line
\* of that header in the text.
C10_UnknownSectionLine ==
    \A k \in 1..SectionsWritten :
        (/\ origin = "from_str"
         /\ HeadersBeforeValid(k)
         /\ Header(k).name \notin SectionNames) =>
            /\ ~result.ok
            /\ result.err = "UnknownSection"
            /\ result.line = Header(k).line

\* the version of the document written
DocVersion == CHOOSE v \in 0..MaxVersionNumber : style.number = fmt_int(v)

\* the parser of the k-th written section rejects the section's last line
RejectsLastLine(k) ==
    /\ ~Header(k).junk
    /\ style.kind = "bad"
    /\ Header(k).name = ColoursName => DocVersion >= 5

\* the k-th written section is the first whose parser fails: the headers up
\* to it are known names, each once, and no text outside a section precedes
FirstFailingSection(k) ==
    /\ k \in 1..SectionsWritten
    /\ RejectsLastLine(k)
    /\ \A j \in 1..(k - 1) : ~RejectsLastLine(j)
    /\ \A j \in 1..k : ~Header(j).junk /\ Header(j).name \in SectionNames
    /\ \A i, j \in 1..k : i < j => Header(i).name # Header(j).name

\* C11: when a section's parser fails on a body line, the error of from_str
\* carries the absolute 1-based line number of that line in the text, for any
\* number of blank lines between the header and the first body line.
C11_SectionErrorLine ==
    \A k \in 1..SectionsWritten :
        (origin = "from_str" /\ FirstFailingSection(k)) =>
            (~result.ok /\ result.line = Header(k).last)

\* C12: Colours::from_str at every version of 4 or lower returns Ok(None)
\* for every body text, a malformed one too, and never an error.
C12_ColoursNoneUpTo4 ==
    (origin = "from_str" /\ style.version <= 4) => result = SectionOk(None)

\* the text written holds text that is part of no well-formed section: a
\* line before the first header, or a header without its closing bracket
TextOutsideSections ==
    \E k \in 2..Len(written) :
        /\ written[k].junk
        /\ k = 2 \/ written[k].name # JunkLine

\* C13: from_str returns Ok only when the whole input was parsed: text after
\* the version line that is part of no well-formed section (text before the
\* first header, a header without its closing bracket and what follows it)
\* makes from_str return an error.
C13_NothingDropped ==
    (origin = "from_str" /\ TextOutsideSections) => ~result.ok

\* the text written after the k-th header's line ending up to the next
\* header or the end of the text
WrittenBody(k) ==
    LET eol == EolText(style.eol)
        body == BodyText(Header(k).name, style.kind, style.nbody, eol)
    IN  SubSeq(body, Len(eol) + 1, Len(body))
        \o (IF k < SectionsWritten THEN repeat(eol, style.blank + 1) ELSE <<>>)

\* C14: the raw body from_str hands to a section's parser is all text after
\* the section's header up to the next header line or the end of the input;
\* a `[` inside a body line does not end the section.
C14_BodyUpToNextHeader ==
    (/\ origin = "from_str"
     /\ KnownHeaders
     /\ SectionsWritten >= 1
     /\ style.nbody >= 1
     /\ style.kind \in {"plain", "bracket"}) =>
        /\ Len(sections_of(input)) = SectionsWritten
        /\ \A k \in 1..SectionsWritten :
              /\ sections_of(input)[k].name = Header(k).name
              /\ sections_of(input)[k].body = WrittenBody(k)

\* every line written is in canonical form
CanonColoursText == \A k \in 1..Len(written) : written[k].canon

\* C15: for a Colours text in canonical form at a version of 5 or higher,
\* Colours::from_str yields the colours in line order with the kinds, combo
\* numbers and RGB values written, and to_string of the result is the text.
C15_ColoursRoundTrip ==
    (origin = "from_str" /\ style.version >= 5 /\ CanonColoursText) =>
        /\ result.ok
        /\ result.val = Some([k \in 1..Len(written) |-> written[k].colour])
        /\ pc = "printed" => (output.done /\ output.text = input)

C15_Witness ==
    /\ origin = "from_str"
    /\ pc = "printed"
    /\ style.version >= 5
    /\ CanonColoursText
    /\ Len(written) = 2
    /\ written[1].colour.kind = "SliderBorder"
    /\ written[2].colour.kind = "Combo"
    /\ output.text = input

\* the command kinds whose fields are `easing,start_time,end_time,values`
\* with keyframes
KeyframeKinds ==
    {"Fade", "Move", "MoveX", "MoveY", "Scale", "VectorScale", "Rotate", "Colour"}

\* C19: an omitted end_time of an animation command is stored as the
\* start_time, an omitted end value of a keyframe as the paired start value:
\* `F,0,500,1000,0` is one keyframe with start 0 and end 0,
\* `F,0,500,1000,0,0.5` one with start 0 and end 0.5, and `F,0,-28,,1` has
\* end_time -28 and one keyframe with start 1 and end 1.
C19_OmittedEndsDefault ==
    origin = "from_str" =>
        /\ written = <<"F", TailTexts.F1>> =>
              /\ result.ok
              /\ result.val.end_time = 1000
              /\ result.val.frames = <<[start |-> <<<<"0">>>>, end |-> <<<<"0">>>>]>>
        /\ written = <<"F", TailTexts.F2>> =>
              /\ result.ok
              /\ result.val.frames
                    = <<[start |-> <<<<"0">>>>, end |-> <<<<"0", ".", "5">>>>]>>
        /\ written = <<"F", TailTexts.F3>> =>
              /\ result.ok
              /\ result.val.start_time = -28
              /\ result.val.end_time = -28
              /\ result.val.frames = <<[start |-> <<<<"1">>>>, end |-> <<<<"1">>>>]>>
        /\ (result.ok /\ result.val.kind \in KeyframeKinds) =>
              /\ written[2] = TailTexts.F3 => result.val.end_time = result.val.start_time
              /\ \A k \in 1..Len(result.val.frames) :
                    \A c \in 1..channels(result.val.kind) :
                        /\ result.val.frames[k].end[c] # <<>>
                        /\ (k = Len(result.val.frames) /\ written[2] \in {TailTexts.F1, TailTexts.F3}) =>
                              result.val.frames[k].end[c] = result.val.frames[k].start[c]

C19_Witness ==
    /\ origin = "from_str"
    /\ written = <<"F", TailTexts.F3>>
    /\ result.ok
    /\ result.val.end_time = -28

\* C20: a command line whose discriminator is none of F, M, MX, MY, S, V, R,
\* C, P, L, T, like `Q,0,500,1000,0`, fails with UnknownCommandType, and
\* each of the eleven discriminators is dispatched to a command kind of its
\* own.
C20_UnknownCommandType ==
    origin = "from_str" =>
        /\ written[1] \notin {"F", "M", "MX", "MY", "S", "V", "R", "C", "P", "L", "T"} =>
              (~result.ok /\ result.err = "UnknownCommandType")
        /\ written[1] \in {"F", "M", "MX", "MY", "S", "V", "R", "C", "P", "L", "T"} =>
              /\ result.err # "UnknownCommandType"
              /\ result.ok => result.val.kind = CommandKinds[written[1]]
              /\ written[2] = GoodTail(written[1]) => result.ok
        /\ \A d, e \in DOMAIN CommandKinds : d # e => CommandKinds[d] # CommandKinds[e]

C20_Witness ==
    /\ origin = "from_str"
    /\ written = <<"Q", TailTexts.F1>>
    /\ ~result.ok
    /\ result.err = "UnknownCommandType"

\* the lines of the written text that have no indentation
EventLines == {k \in 1..Len(written) : written[k].depth = 0}

\* the event type a line of each kind is written for
TypeOfKind ==
    [background |-> "Background", break |-> "Break", comment |-> "Comment",
     sprite |-> "Sprite"]

\* the number of lines without indentation among the first k lines
EventsBefore(k) == Cardinality({j \in EventLines : j <= k})

\* C16: parsing an Events text yields one event per line without indentation,
\* in the order of the lines (comments, backgrounds, breaks, storyboard
\* objects), identical lines are kept as separate events, and to_string of
\* the parsed Events is the input text.
C16_OneEventPerLine ==
    /\ (origin = "from_str" /\ EventLines = 1..Len(written)) => result.ok
    /\ (origin = "from_str" /\ result.ok) =>
           /\ Len(result.val.val) = Cardinality(EventLines)
           /\ \A k \in EventLines :
                  result.val.val[EventsBefore(k)].type = TypeOfKind[written[k].kind]
    /\ output.done => output.text = input

C16_Witness ==
    /\ output.done
    /\ output.text = input
    /\ EventLines = 1..Len(written)
    /\ Len(result.val.val) = MaxEventLines
    /\ \E j, k \in EventLines : j < k /\ written[j] = written[k]
    /\ {written[k].kind : k \in EventLines} \ {"comment", "sprite"} # {}
    /\ {"comment", "sprite"} \subseteq {written[k].kind : k \in EventLines}

\* the commands from the k-th on and their children in the order of their
\* lines, each with its nesting depth d
RECURSIVE CommandDepths(_, _, _)
CommandDepths(cmds, k, d) ==
    IF k > Len(cmds) THEN <<>>
    ELSE <<[depth |-> d, kind |-> cmds[k].kind]>>
         \o CommandDepths(cmds[k].commands, 1, d + 1)
         \o CommandDepths(cmds, k + 1, d)

\* the events from the k-th on, each followed by the commands of its tree
RECURSIVE TreeDepths(_, _)
TreeDepths(events, k) ==
    IF k > Len(events) THEN <<>>
    ELSE <<[depth |-> 0, kind |-> events[k].type]>>
         \o CommandDepths(events[k].commands, 1, 1)
         \o TreeDepths(events, k + 1)

\* the written lines: the indentation of each and what it is written for
WrittenDepths ==
    [k \in 1..Len(written) |->
        [depth |-> written[k].depth,
         kind |-> IF written[k].depth = 0 THEN TypeOfKind[written[k].kind]
                  ELSE CommandKinds[written[k].kind]]]

\* the text is the lines of the given depths and kinds
WrittenIs(depths, kinds) ==
    /\ Len(written) = Len(depths)
    /\ \A k \in 1..Len(depths) :
           written[k] = [depth |-> depths[k], kind |-> kinds[k]]

\* the kinds of the commands cmds
KindsOf(cmds) == [k \in 1..Len(cmds) |-> cmds[k].kind]

\* C17: in the command tree of a storyboard object the nesting depth of every
\* command is the indentation of its line and the commands stand in the
\* order of their lines: a command one level deeper than the Loop or Trigger
\* before it is a child of it, commands of one indentation under a Loop are
\* its children in order, a command back at a shallower indentation is
\* appended to the list of that depth.  For the lines T / L / M of
\* indentation 1 / 2 / 3 the Trigger has exactly one child, the Loop, which
\* has exactly one child, the Move with easing 3 from 100 to 120.
C17_DepthIsIndentation ==
    (origin = "from_str" /\ result.ok) =>
        LET events == result.val.val
            cmds == events[1].commands
        IN  /\ TreeDepths(events, 1) = WrittenDepths
            /\ WrittenIs(<<0, 1, 2, 3>>, <<"sprite", "T", "L", "M">>) =>
                   /\ KindsOf(cmds) = <<"Trigger">>
                   /\ KindsOf(cmds[1].commands) = <<"Loop">>
                   /\ KindsOf(cmds[1].commands[1].commands) = <<"Move">>
                   /\ cmds[1].commands[1].commands[1].easing = 3
                   /\ cmds[1].commands[1].commands[1].start_time = 100
                   /\ cmds[1].commands[1].commands[1].end_time = 120
                   /\ cmds[1].commands[1].commands[1].commands = <<>>
            /\ WrittenIs(<<0, 1, 2, 2>>, <<"sprite", "L", "M", "T">>) =>
                   /\ KindsOf(cmds) = <<"Loop">>
                   /\ KindsOf(cmds[1].commands) = <<"Move", "Trigger">>
            /\ WrittenIs(<<0, 1, 2, 1>>, <<"sprite", "L", "M", "M">>) =>
                   /\ KindsOf(cmds) = <<"Loop", "Move">>
                   /\ KindsOf(cmds[1].commands) = <<"Move">>

C17_Witness ==
    /\ origin = "from_str"
    /\ result.ok
    /\ WrittenIs(<<0, 1, 2, 3>>, <<"sprite", "T", "L", "M">>)
    /\ KindsOf(result.val.val[1].commands[1].commands[1].commands) = <<"Move">>

\* the lines before line k with less indentation than it
Shallower(k) == {j \in 1..(k - 1) : written[j].depth < written[k].depth}

\* the indentation of the command line k matches no open command list: no
\* line before it is shallower, or the nearest shallower line is not one
\* level above it, or that line opens no list (it is no object header at
\* depth 1, no Loop or Trigger deeper)
Mismatch(k) ==
    /\ written[k].depth > 0
    /\ \/ Shallower(k) = {}
       \/ LET j == CHOOSE j \in Shallower(k) : \A i \in Shallower(k) : i <= j
          IN  \/ written[j].depth # written[k].depth - 1
              \/ written[j].kind \notin {"sprite", "L", "T"}

\* C18: a command line whose indentation matches no command list that is
\* open (it is deeper than the command before it without that command being
\* a Loop or Trigger, or it skips a level) makes the parse fail with
\* InvalidIndentation, and no command tree is returned; without such a line
\* the parse succeeds.
C18_InvalidIndentation ==
    origin = "from_str" =>
        IF \E k \in 1..Len(written) : Mismatch(k)
        THEN ~result.ok /\ result.err = "InvalidIndentation" /\ result.val = None
        ELSE result.ok

C18_Witness ==
    /\ origin = "from_str"
    /\ ~result.ok
    /\ result.err = "InvalidIndentation"
    /\ \E k \in 3..Len(written) :
           /\ Mismatch(k)
           /\ written[k - 1].depth > 0
           /\ \A j \in 1..(k - 1) : ~Mismatch(j)

\* the errors of Rgb::from_str
RgbFaults == {"InvalidRed", "MissingGreen", "InvalidGreen", "MissingBlue", "InvalidBlue"}

\* line k is the first line written with a fault
FirstFault(k) ==
    /\ k \in 1..Len(written)
    /\ written[k].fault # "none"
    /\ \A j \in 1..(k - 1) : written[j].fault = "none"

\* C23: for a colour line whose RGB part is malformed Colour::from_str returns
\* an error and does not panic, and the error is the one the Rgb parser gives
\* for that RGB part; the re-parse that builds the message does not change it.
C23_RgbErrorReported ==
    (origin = "from_str" /\ style.version >= 5) =>
        \A k \in 1..Len(written) :
            (FirstFault(k) /\ written[k].fault \in RgbFaults) =>
                /\ ~result.ok
                /\ result.err = written[k].fault

\* C24: Rgb::from_str, and through it Colour::from_str, rejects a text that
\* has anything after the blue component other than an optional `,alpha`
\* with alpha a number of 0..=255 (`1,2,3x` and `1,2,3,abc` are errors), and
\* accepts red, green and blue only in 0..=255.
C24_TrailingTextRejected ==
    (origin = "from_str" /\ style.version >= 5) =>
        \A k \in 1..Len(written) :
            (FirstFault(k) /\ written[k].fault \in {"Trailing", "InvalidAlpha", "InvalidRed"})
                => ~result.ok

\* C25: for every Rgb value, also one with alpha = Some(a), parsing the text
\* of Rgb::to_string yields the same Rgb value.
C25_RgbRoundTrip ==
    (pc = "parsed" /\ style \in [rgb : RgbValues]) =>
        (result.ok /\ result.val = style.rgb)

\* the lines written that are not empty, and those of them for which
\* Colour::from_str gives no colour
NonEmptyLines == {k \in 1..Len(written) : written[k].text # <<>>}
FailingLines == {k \in NonEmptyLines : ~Colour_from_str(written[k].text).ok}

\* the number of non-empty lines among the first k lines
ColoursBefore(k) == Cardinality({j \in NonEmptyLines : j <= k})

C27_AbsenceAgrees ==
    origin = "from_str" =>
        LET version == style.version
            colours == IF result.ok /\ result.val.some THEN result.val.val ELSE <<>>
            absent == version \in MIN_VERSION..4
        IN  /\ (result.ok /\ result.val = None) <=> absent
            /\ absent => result.ok
            /\ (Colours_to_string(colours, version) = None) <=> absent
            /\ (Colours_default(version) = None) <=> absent
            /\ pc = "printed" => (output.done /\ ~absent)

C27_Witness ==
    /\ origin = "from_str"
    /\ style.version = 4
    /\ written # <<>>
    /\ written[1].fault = "UnknownColourType"
    /\ result.ok
    /\ result.val = None
    /\ Colours_default(style.version) = None

\* the k-th written section has a fault: it is text outside of a section,
\* its header repeats a name, or its parser rejects its last line
DuplicateHeader(k) ==
    /\ ~Header(k).junk
    /\ \E j \in 1..(k - 1) : ~Header(j).junk /\ Header(j).name = Header(k).name

Faulty(k) ==
    \/ Header(k).junk /\ (k = 1 \/ Header(k).name # JunkLine)
    \/ DuplicateHeader(k)
    \/ RejectsLastLine(k)

\* C22: when the input holds several faults, from_str returns one error, the
\* error of the fault that comes first in the text; the error of a later
\* fault is never reported in its place.
C22_FirstFaultReported ==
    (origin = "from_str" /\ Cardinality({k \in 1..SectionsWritten : Faulty(k)}) >= 2) =>
        LET k == CHOOSE k \in 1..SectionsWritten :
                     Faulty(k) /\ \A j \in 1..(k - 1) : ~Faulty(j)
        IN  /\ ~result.ok
            /\ DuplicateHeader(k) <=> result.err = "DuplicateSections"

\* C28: get_colon_field_value_lines returns one (name, value) pair per
\* `name : value` line, in line order, name and value both taken from the
\* line: a line with an empty value yields an empty value and does not take
\* the following line as its value.
C28_OnePairPerLine ==
    origin = "fields" =>
        result.pairs = [k \in 1..Len(written) |-> <<written[k].name, written[k].value>>]

\* C21: for the text of general_parse, the 19 keys once each as `Key: value`
\* lines separated by LF, General::from_str gives a General with exactly those
\* values, and to_string of it is the text.
TestText == style.eol = "lf" /\ style.omit = {} /\ style.fault = NoFault

C21_GeneralRoundTrip ==
    (origin = "general" /\ TestText) =>
        /\ result.ok
        /\ \A k \in 1..Len(GeneralKeys) :
               result.val[GeneralKeys[k].field] = GeneralValues[k].value
        /\ pc = "done" => output.text = input

\* C29: try_from of CountdownSpeed and GameMode succeeds exactly for 0..=3 and
\* Display of the result prints the number; from_str of SampleSet and
\* OverlayPosition succeeds exactly for the Display texts of the enum and
\* Display of the result is the text; from_str of the Display text of a
\* variant is the variant.
DisplayTexts ==
    [SampleSet |-> {<<"N", "o", "r", "m", "a", "l">>, <<"S", "o", "f", "t">>,
                    <<"D", "r", "u", "m">>},
     OverlayPosition |-> {<<"N", "o", "C", "h", "a", "n", "g", "e">>,
                          <<"B", "e", "l", "o", "w">>, <<"A", "b", "o", "v", "e">>}]

C29_EnumsInverse ==
    /\ (pc \in {"parsed", "done"} /\ style.enum \in DOMAIN NumberEnums) =>
           /\ result.ok <=> style.number \in 0..3
           /\ pc = "done" => output.text = fmt_i32(style.number)
    /\ (pc \in {"parsed", "done"} /\ style.enum \in DOMAIN TextEnums) =>
           /\ result.ok <=> input \in DisplayTexts[style.enum]
           /\ pc = "done" => output.text = input
           /\ result.ok =>
                  variant_from_str(TextEnums[style.enum],
                                   text_of(TextEnums[style.enum], result.val)).val = result.val

C29_Witness ==
    /\ pc = "done"
    /\ style.enum = "GameMode"
    /\ style.number = 3
    /\ result.val = "Mania"
    /\ output.text = <<"3">>

\* C30: General::from_str returns an error, and does not panic, when a line
\* has an unknown key, has no `:`, gives a boolean key a value other than 0
\* or 1, or gives Countdown or Mode a value outside 0..=3; a key that is not
\* given keeps its default value.
C30_GeneralErrors ==
    origin = "general" =>
        /\ style.fault # NoFault =>
               /\ ~result.ok
               /\ result.err = style.fault.err
               /\ result.line = style.fault.text
        /\ result.ok =>
               \A k \in style.omit :
                   result.val[GeneralKeys[k].field] = GeneralKeys[k].default

=============================================================================
